---------------------------- MODULE Spec2Model ----------------------------
(***************************************************************************)
(* A model of the courts module of the ClubExpress SDK                     *)
(* (src/src/modules/courts/courts.module.ts): the availability resolver    *)
(* of findAvailableCourts and the club-rule validator of bookCourt.        *)
(* Two further parts are modelled beside it: the retrying response        *)
(* interceptor of the config-object client (src/src/core/client.ts) and    *)
(* the session calls of AuthModule (src/src/modules/auth/auth.module.ts).  *)
(*                                                                         *)
(* Time.  A JavaScript Date is modelled as an integer number of minutes    *)
(* since a UTC midnight (day 0); an ISO string produced by toISOString()   *)
(* and read back by new Date() denotes the same instant, so full ISO       *)
(* strings are modelled by the instant they denote.  The local-time        *)
(* accessors (getHours, getDate, setHours, toDateString) go through the    *)
(* environment's time zone tzOffset (minutes east of UTC).  A date-only    *)
(* string 'YYYY-MM-DD' is modelled by its UTC day number, and parses to    *)
(* UTC midnight.  Daylight-saving shifts are not modelled: every local     *)
(* day has MinutesPerDay minutes.                                          *)
(***************************************************************************)
EXTENDS Integers, Sequences, FiniteSets, TLC

VARIABLES
    tzOffset,        \* environment: local time = UTC + tzOffset (minutes)
    now,             \* environment: the wall clock, new Date()
    authStatus,      \* ClubExpressClient.isAuthenticated
    gatewayBookings, \* gateway: the member's bookings, [day, court, start]
    gatewayGrid,     \* gateway: the grid of the day, as it would be served
    lastGridData,    \* CourtsModule.lastGridData
    facPc,           \* findAvailableCourts: position of the call
    facOptions,      \* findAvailableCourts: the options of the call
    facDayOffset,    \* findAvailableCourts: d= of the grid request
    facFree,         \* findAvailableCourts: allTimeSlots of each resource
    facSlots,        \* findAvailableCourts: availableSlots of each resource
    facResult,       \* findAvailableCourts: what the call returned or threw
    bookPc,          \* bookCourt: position of the call
    bookOptions,     \* bookCourt: the options of the call
    bookExisting,    \* bookCourt: existingBookings of the validator
    bookRequests,    \* bookCourt: HTTP requests the call has issued, in order
    bookResult,      \* bookCourt: what the call returned or threw
    callPc,          \* findAllCourts, cancelBooking, getMyBookings: position
    callName,        \* ... the method that was called
    callOptions,     \* ... its options
    callRequests,    \* ... HTTP requests the call has issued, in order
    callResult,      \* ... what the call returned or threw
    facCalls,        \* findAvailableCourts calls in flight together, by call
    facLastInvoked,  \* ... the call that was invoked last, 0 before any
    bookCalls,       \* bookCourt calls in flight together, by call
    clientConfig,    \* config-object client: this.config
    reqPc,           \* config-object client: position of the request
    reqConfig,       \* ... the axios config of the request, with its retry
    reqAttempts,     \* ... how many times the request was sent
    reqOutcome,      \* ... what the request resolved or rejected with
    authPc,          \* AuthModule: position of the call
    authCall,        \* AuthModule: the method that was called
    authResult,      \* AuthModule: what the call returned or threw
    lastValidation,  \* history: what the last completed validateSession returned
    authResponse     \* the answer of the gateway the AuthModule call waits for

vars == << tzOffset, now, authStatus, gatewayBookings, gatewayGrid, lastGridData,
           facPc, facOptions, facDayOffset, facFree, facSlots, facResult,
           bookPc, bookOptions, bookExisting, bookRequests, bookResult,
           callPc, callName, callOptions, callRequests, callResult,
           facCalls, facLastInvoked, bookCalls,
           clientConfig, reqPc, reqConfig, reqAttempts, reqOutcome,
           authPc, authCall, authResult, lastValidation, authResponse >>

facVars  == << lastGridData, facPc, facOptions, facDayOffset, facFree, facSlots,
               facResult >>
bookVars == << bookPc, bookOptions, bookExisting, bookRequests, bookResult >>
callVars == << callPc, callName, callOptions, callRequests, callResult >>
concVars == << facCalls, facLastInvoked, bookCalls >>
retryVars == << clientConfig, reqPc, reqConfig, reqAttempts, reqOutcome >>
sessionVars == << authPc, authCall, authResult, lastValidation, authResponse >>
coreVars == << retryVars, sessionVars >>

-----------------------------------------------------------------------------
(* Program constants *)

MinutesPerDay == 1440           \* 1000 * 60 * 60 * 24 ms
SlotMinutes == 15               \* i * 15 * 60 * 1000
SlotsPerTemplateBlock == 6      \* for (let i = 0; i < 6; i++) ... currentSlotId += 6
requiredConsecutiveSlots == 6   \* const requiredConsecutiveSlots = 6
BlockDurationMinutes == 90      \* durationMinutes: 90 of an emitted block
maxAdvanceDays == 7             \* maxBookingDate.getDate() + 7
bookingOpenHour == 13           \* bookingOpenTime.setHours(13, 0, 0, 0)
requiredDurationMinutes == 90   \* durationMinutes !== 90
TemplateOpenMinute == 480       \* timeSlots[0].start, '8:00 AM'
DefaultMaxRetries == 3          \* DEFAULT_CONFIG.maxRetries

(* Bounds of the model *)

EpochDay == 10          \* the local day number of "today"
MaxReservations == 2    \* reservations per resource of a single-resource grid
MaxResources == 2       \* resources of a multi-resource grid
MaxGatewayBookings == 1 \* bookings the gateway holds for the member
MaxInFlight == 2        \* calls of one method in flight at the same time

-----------------------------------------------------------------------------
(* JavaScript Date, in minutes *)

\* Date.prototype.getDate()/getMonth()/getFullYear()/toDateString(): the
\* local calendar day of an instant.
LocalDay(t) == (t + tzOffset) \div MinutesPerDay

\* getHours() * 60 + getMinutes()
LocalMinuteOfDay(t) == (t + tzOffset) % MinutesPerDay

GetHours(t) == LocalMinuteOfDay(t) \div 60

GetMinutes(t) == LocalMinuteOfDay(t) % 60

\* d.setHours(h, m, 0, 0): same local day, given local time of day.
SetHours(t, h, m) == LocalDay(t) * MinutesPerDay + h * 60 + m - tzOffset

\* d.setDate(d.getDate() + n)
AddDays(t, n) == t + n * MinutesPerDay

\* d.toISOString().split('T')[0]: the UTC calendar day.
ToISODate(t) == t \div MinutesPerDay

\* new Date('YYYY-MM-DD'): a date-only string is UTC midnight.
ParseDateOnly(day) == day * MinutesPerDay

\* The instant of local time of day m on local day d.
LocalInstant(d, m) == d * MinutesPerDay + m - tzOffset

-----------------------------------------------------------------------------
(* Option strings *)

\* An option that holds a date or a time: the empty/missing string, a
\* date-only string 'YYYY-MM-DD' (v is its day number) or a full ISO
\* string (v is its instant).
NoString == [form |-> "none", v |-> 0]

DateOnly(day) == [form |-> "dateOnly", v |-> day]

Iso(t) == [form |-> "iso", v |-> t]

\* !options.x
IsMissing(s) == s.form = "none"

\* new Date(s)
NewDate(s) == IF s.form = "dateOnly" THEN ParseDateOnly(s.v) ELSE s.v

-----------------------------------------------------------------------------
(* findAvailableCourts: the time-slot map *)

\* const timeSlots = [{ start: '8:00 AM', end: '9:30 AM' }, ...]
timeSlots ==
    << [start |-> [hours |-> 8,  minutes |-> 0,  period |-> "AM"],
        end   |-> [hours |-> 9,  minutes |-> 30, period |-> "AM"]],
       [start |-> [hours |-> 9,  minutes |-> 30, period |-> "AM"],
        end   |-> [hours |-> 11, minutes |-> 0,  period |-> "AM"]],
       [start |-> [hours |-> 11, minutes |-> 0,  period |-> "AM"],
        end   |-> [hours |-> 12, minutes |-> 30, period |-> "PM"]],
       [start |-> [hours |-> 12, minutes |-> 30, period |-> "PM"],
        end   |-> [hours |-> 2,  minutes |-> 0,  period |-> "PM"]],
       [start |-> [hours |-> 2,  minutes |-> 0,  period |-> "PM"],
        end   |-> [hours |-> 3,  minutes |-> 30, period |-> "PM"]],
       [start |-> [hours |-> 3,  minutes |-> 30, period |-> "PM"],
        end   |-> [hours |-> 5,  minutes |-> 0,  period |-> "PM"]],
       [start |-> [hours |-> 5,  minutes |-> 0,  period |-> "PM"],
        end   |-> [hours |-> 6,  minutes |-> 30, period |-> "PM"]] >>

\* parseTime that reads the hours as they are written and ignores AM/PM.
parseTimeWithoutPeriod(timeStr, date) == SetHours(date, timeStr.hours, timeStr.minutes)

\* parseTime(timeStr, date): 12-hour clock to a Date on date's local day.
parseTime(timeStr, date) ==
    LET hours == IF timeStr.period = "PM" /\ timeStr.hours < 12
                    THEN timeStr.hours + 12
                 ELSE IF timeStr.period = "AM" /\ timeStr.hours = 12
                    THEN 0
                 ELSE timeStr.hours
    IN  SetHours(date, hours, timeStr.minutes)

\* The slot ids the map has an entry for: 6 per entry of timeSlots, from
\* gridData.firstTS on.
MappedSlots(firstTS) ==
    firstTS .. firstTS + Len(timeSlots) * SlotsPerTemplateBlock - 1

\* timeSlotMap: slot id -> the ISO string of its start.
timeSlotMap(firstTS, targetDate) ==
    [s \in MappedSlots(firstTS) |->
        LET slot == timeSlots[(s - firstTS) \div SlotsPerTemplateBlock + 1]
            i    == (s - firstTS) % SlotsPerTemplateBlock
        IN  parseTime(slot.start, targetDate) + i * SlotMinutes]

-----------------------------------------------------------------------------
(* findAvailableCourts: free slots of a resource and their grouping *)

\* ReservationSlots with the last slot of the reservation left free
\* (ts < reservation.lastTS).
ReservationSlotsHalfOpen(reservation) == reservation.firstTS .. reservation.lastTS - 1

\* for (let ts = reservation.firstTS; ts <= reservation.lastTS; ts++)
\*     allTimeSlots.delete(ts)
ReservationSlots(reservation) == reservation.firstTS .. reservation.lastTS

\* RemoveReservations that toggles the slots of a reservation: a slot that
\* is not in the set is put into it.
RECURSIVE ToggleReservations(_, _)
ToggleReservations(slots, reservations) ==
    IF reservations = << >> THEN slots
    ELSE LET range == ReservationSlots(Head(reservations))
         IN  ToggleReservations((slots \ range) \cup (range \ slots), Tail(reservations))

RECURSIVE RemoveReservations(_, _)
RemoveReservations(slots, reservations) ==
    IF reservations = << >> THEN slots
    ELSE RemoveReservations(slots \ ReservationSlots(Head(reservations)),
                            Tail(reservations))

\* A firstAvailableTS or lastAvailableTS that the grid does not give: the
\* property reads as undefined.  Slot indices are positive.
Undefined == 0 - 1

\* for (let ts = firstAvailableTS; ts <= lastAvailableTS; ts++): with an
\* undefined bound the comparison is false and the loop adds nothing.
OpenTimeSlots(resource) ==
    IF resource.firstAvailableTS = Undefined \/ resource.lastAvailableTS = Undefined
       THEN {}
       ELSE resource.firstAvailableTS .. resource.lastAvailableTS

\* allTimeSlots after the reservations were removed.
allTimeSlots(resource) ==
    RemoveReservations(OpenTimeSlots(resource), resource.reservations)

\* Array.from(allTimeSlots).sort((a, b) => a - b)
RECURSIVE SortAscending(_)
SortAscending(S) ==
    IF S = {} THEN << >>
    ELSE LET m == CHOOSE x \in S : \A y \in S : x <= y
         IN  << m >> \o SortAscending(S \ {m})

\* The inner loop: sorted[i+j+1] = sorted[i+j] + 1 for j < required - 1
\* (i is the 0-based index of the code).
isConsecutive(sorted, i) ==
    \A j \in 0 .. requiredConsecutiveSlots - 2 :
        sorted[i + j + 2] = sorted[i + j + 1] + 1

\* The TimeSlot pushed for a run starting at startSlot and ending at endSlot.
TimeSlotOf(map, startSlot, endSlot) ==
    [startTime |-> map[startSlot],
     endTime |-> map[endSlot] + SlotMinutes,
     durationMinutes |-> BlockDurationMinutes]

\* GroupFrom that skips ahead only past a block it pushed: a run of 6 whose
\* slots have no time is scanned again from its second slot.
RECURSIVE GroupFromRescanning(_, _, _, _)
GroupFromRescanning(sorted, map, i, acc) ==
    IF i > Len(sorted) - requiredConsecutiveSlots THEN acc
    ELSE IF isConsecutive(sorted, i)
         THEN LET startSlot == sorted[i + 1]
                  endSlot   == sorted[i + requiredConsecutiveSlots]
              IN  IF startSlot \in DOMAIN map /\ endSlot \in DOMAIN map
                     THEN GroupFromRescanning(sorted, map, i + requiredConsecutiveSlots,
                             Append(acc, TimeSlotOf(map, startSlot, endSlot)))
                     ELSE GroupFromRescanning(sorted, map, i + 1, acc)
         ELSE GroupFromRescanning(sorted, map, i + 1, acc)

\* GroupFrom with the skip past an emitted block one slot short: the next
\* scan starts on the last slot of the block.
RECURSIVE GroupFromSkippingFive(_, _, _, _)
GroupFromSkippingFive(sorted, map, i, acc) ==
    IF i > Len(sorted) - requiredConsecutiveSlots THEN acc
    ELSE IF isConsecutive(sorted, i)
         THEN LET startSlot == sorted[i + 1]
                  endSlot   == sorted[i + requiredConsecutiveSlots]
                  pushed    == IF startSlot \in DOMAIN map /\ endSlot \in DOMAIN map
                                  THEN Append(acc, TimeSlotOf(map, startSlot, endSlot))
                                  ELSE acc
              IN  GroupFromSkippingFive(sorted, map, i + requiredConsecutiveSlots - 1,
                                        pushed)
         ELSE GroupFromSkippingFive(sorted, map, i + 1, acc)

\* GroupFrom without the skip past an emitted block (i += 5 left out).
RECURSIVE GroupFromOverlapping(_, _, _, _)
GroupFromOverlapping(sorted, map, i, acc) ==
    IF i > Len(sorted) - requiredConsecutiveSlots THEN acc
    ELSE IF isConsecutive(sorted, i)
         THEN LET startSlot == sorted[i + 1]
                  endSlot   == sorted[i + requiredConsecutiveSlots]
                  pushed    == IF startSlot \in DOMAIN map /\ endSlot \in DOMAIN map
                                  THEN Append(acc, TimeSlotOf(map, startSlot, endSlot))
                                  ELSE acc
              IN  GroupFromOverlapping(sorted, map, i + 1, pushed)
         ELSE GroupFromOverlapping(sorted, map, i + 1, acc)

\* The outer loop from index i on, with availableSlots = acc.
RECURSIVE GroupFrom(_, _, _, _)
GroupFrom(sorted, map, i, acc) ==
    IF i > Len(sorted) - requiredConsecutiveSlots THEN acc
    ELSE IF isConsecutive(sorted, i)
         THEN LET startSlot == sorted[i + 1]
                  endSlot   == sorted[i + requiredConsecutiveSlots]
                  pushed    == IF startSlot \in DOMAIN map /\ endSlot \in DOMAIN map
                                  THEN Append(acc, TimeSlotOf(map, startSlot, endSlot))
                                  ELSE acc
              IN  GroupFrom(sorted, map, i + requiredConsecutiveSlots, pushed)
         ELSE GroupFrom(sorted, map, i + 1, acc)

\* availableSlots of one resource, before the time filters.
availableSlots(resource, map) ==
    GroupFrom(SortAscending(allTimeSlots(resource)), map, 0, << >>)

-----------------------------------------------------------------------------
(* findAvailableCourts: courts, filters and the result *)

\* The lower-cased words of the display names the model's gateway uses.
NameWords(courtName) ==
    CASE courtName = "Court 1" -> {"court"}
      [] courtName = "North Indoor Pickleball Court 2" ->
            {"north", "indoor", "pickleball", "court"}
      [] courtName = "Court 3" -> {"court"}
      [] OTHER -> {}

\* courtName.toLowerCase().includes(word)
NameIncludes(courtName, word) == word \in NameWords(courtName)

extractCourtType(courtName) ==
    IF NameIncludes(courtName, "pickleball") THEN "Pickleball"
    ELSE IF NameIncludes(courtName, "squash") THEN "Squash"
    ELSE IF NameIncludes(courtName, "racquetball") THEN "Racquetball"
    ELSE IF NameIncludes(courtName, "badminton") THEN "Badminton"
    ELSE "Tennis"

extractCourtFeatures(courtName) ==
    (IF NameIncludes(courtName, "indoor") THEN << "Indoor" >> ELSE << >>)
    \o (IF NameIncludes(courtName, "outdoor") THEN << "Outdoor" >> ELSE << >>)
    \o (IF NameIncludes(courtName, "clay") THEN << "Clay" >> ELSE << >>)
    \o (IF NameIncludes(courtName, "hard") THEN << "Hard" >> ELSE << >>)
    \o (IF NameIncludes(courtName, "grass") THEN << "Grass" >> ELSE << >>)
    \o (IF NameIncludes(courtName, "lighted") \/ NameIncludes(courtName, "lights")
           THEN << "Lighted" >> ELSE << >>)

extractCourtLocation(courtName) ==
    IF NameIncludes(courtName, "north") THEN "North"
    ELSE IF NameIncludes(courtName, "south") THEN "South"
    ELSE IF NameIncludes(courtName, "east") THEN "East"
    ELSE IF NameIncludes(courtName, "west") THEN "West"
    ELSE IF NameIncludes(courtName, "center") THEN "Center"
    ELSE "Main"

\* a.toLowerCase().includes(b.toLowerCase()), for the tags and the queries of
\* the model: a query is a whole tag in either case, so it is a substring of
\* a tag exactly when the two agree up to case.
ToLowerCase(str) ==
    CASE str = "Pickleball" -> "pickleball"
      [] str = "Tennis" -> "tennis"
      [] str = "Indoor" -> "indoor"
      [] str = "North" -> "north"
      [] str = "Main" -> "main"
      [] OTHER -> str

IncludesIgnoreCase(a, b) == ToLowerCase(a) = ToLowerCase(b)

CourtOf(resource) ==
    [id |-> resource.id,
     name |-> resource.name,
     type |-> extractCourtType(resource.name),
     features |-> extractCourtFeatures(resource.name),
     location |-> extractCourtLocation(resource.name)]

\* filteredSlots without the endTime filter.
filteredSlotsByStartOnly(slots, options) ==
    IF ~IsMissing(options.startTime)
       THEN SelectSeq(slots, LAMBDA slot : slot.startTime >= NewDate(options.startTime))
       ELSE slots

\* The start/end time filters of one resource's slots.
filteredSlots(slots, options) ==
    LET afterStart ==
            IF ~IsMissing(options.startTime)
               THEN SelectSeq(slots,
                       LAMBDA slot : slot.startTime >= NewDate(options.startTime))
               ELSE slots
    IN  IF ~IsMissing(options.endTime)
           THEN SelectSeq(afterStart,
                   LAMBDA slot : slot.endTime <= NewDate(options.endTime))
           ELSE afterStart

\* availabilityResults with an entry for every resource, also one that
\* keeps no slot.
RECURSIVE availabilityResultsOfEveryResource(_, _, _)
availabilityResultsOfEveryResource(resources, map, options) ==
    IF resources = << >> THEN << >>
    ELSE LET resource == Head(resources)
             kept     == filteredSlots(availableSlots(resource, map), options)
         IN  << [court |-> CourtOf(resource),
                 date |-> options.date,
                 availableSlots |-> kept] >>
             \o availabilityResultsOfEveryResource(Tail(resources), map, options)

\* gridData.resources.forEach(...): one entry per resource that keeps a slot.
RECURSIVE availabilityResults(_, _, _)
availabilityResults(resources, map, options) ==
    IF resources = << >> THEN << >>
    ELSE LET resource == Head(resources)
             kept     == filteredSlots(availableSlots(resource, map), options)
             rest     == availabilityResults(Tail(resources), map, options)
         IN  IF Len(kept) > 0
                THEN << [court |-> CourtOf(resource),
                         date |-> options.date,
                         availableSlots |-> kept] >> \o rest
                ELSE rest

\* The type, features and location filters over the per-resource results.
filteredResults(results, options) ==
    LET byType ==
            IF options.type # ""
               THEN SelectSeq(results,
                       LAMBDA result : IncludesIgnoreCase(result.court.type, options.type))
               ELSE results
        byFeatures ==
            IF Len(options.features) > 0
               THEN SelectSeq(byType,
                       LAMBDA result :
                          \A k \in 1 .. Len(options.features) :
                             \E f \in 1 .. Len(result.court.features) :
                                IncludesIgnoreCase(result.court.features[f],
                                                   options.features[k]))
               ELSE byType
    IN  IF options.location # ""
           THEN SelectSeq(byFeatures,
                   LAMBDA result :
                      IncludesIgnoreCase(result.court.location, options.location))
           ELSE byFeatures

\* today and targetDate after setHours(0, 0, 0, 0), and
\* Math.round(diffTime / (1000 * 60 * 60 * 24)) of their difference.
StartOfDay(t) == SetHours(t, 0, 0)

diffDays(today, targetDate) ==
    LET diffTime == targetDate - today
    IN  (2 * diffTime + MinutesPerDay) \div (2 * MinutesPerDay)

-----------------------------------------------------------------------------
(* The inputs of the model *)

\* Time zones of the environment: US Mountain Standard Time (the zone the
\* command-line tool prints) and UTC.
TimeZones == {-420, 0}

\* Local times of day of the wall clock: 12:59 PM and 1:00 PM.
NowMinutes == {779, 780}

\* gridData.firstTS of the fetched day: the vendor's per-day slot origin.
FirstTSChoices == {100}

LastMapped(firstTS) == firstTS + Len(timeSlots) * SlotsPerTemplateBlock - 1

\* [firstAvailableTS, lastAvailableTS] of a resource: the whole template
\* window, opening one block early, opening three slots early, closing one
\* block late, opening one slot late, and a window of two blocks.
OpenRanges(firstTS) ==
    { << firstTS, LastMapped(firstTS) >>,
      << firstTS - 6, LastMapped(firstTS) >>,
      << firstTS - 3, LastMapped(firstTS) >>,
      << firstTS, LastMapped(firstTS) + 6 >>,
      << firstTS + 1, LastMapped(firstTS) >>,
      << firstTS, firstTS + 11 >> }

\* Reservations other members hold or make: the second template block, a
\* range that starts before the window and ends on its first slot, the
\* whole window, and a range after every open range.
ReservationChoices(firstTS) ==
    { [firstTS |-> firstTS + 6,  lastTS |-> firstTS + 11],
      [firstTS |-> firstTS - 3,  lastTS |-> firstTS],
      [firstTS |-> firstTS,      lastTS |-> LastMapped(firstTS)],
      [firstTS |-> firstTS + 50, lastTS |-> firstTS + 55] }

\* Reservations made on a grid of several resources.
PlainReservationChoices(firstTS) ==
    { [firstTS |-> firstTS + 6,  lastTS |-> firstTS + 11],
      [firstTS |-> firstTS,      lastTS |-> LastMapped(firstTS)] }

ResourceNames == << "Court 1", "North Indoor Pickleball Court 2", "Court 3" >>

ResourceAt(k, range, reservations) ==
    [id |-> k,
     name |-> ResourceNames[((k - 1) % Len(ResourceNames)) + 1],
     firstAvailableTS |-> range[1],
     lastAvailableTS |-> range[2],
     reservations |-> reservations]

\* Open ranges of a resource whose data is malformed: firstAvailableTS or
\* lastAvailableTS is missing.
MalformedRanges(firstTS) ==
    { << Undefined, LastMapped(firstTS) >>, << firstTS, Undefined >> }

\* The gateway's grid of the day before anybody reserved: one resource with
\* any of the open ranges, or no or several resources open over the whole
\* template window, or a malformed resource before or after a resource
\* open over the whole template window.
InitialGrids ==
    UNION { { [firstTS |-> t, resources |-> << ResourceAt(1, range, << >>) >>]
              : range \in OpenRanges(t) }
            \cup
            { [firstTS |-> t,
               resources |-> << ResourceAt(1, range, << >>),
                                ResourceAt(2, << t, LastMapped(t) >>, << >>) >>]
              : range \in MalformedRanges(t) }
            \cup
            { [firstTS |-> t,
               resources |-> << ResourceAt(1, << t, LastMapped(t) >>, << >>),
                                ResourceAt(2, << t, Undefined >>, << >>) >>] }
            \cup
            { [firstTS |-> t,
               resources |-> [k \in 1 .. n |->
                                ResourceAt(k, << t, LastMapped(t) >>, << >>)]]
              : n \in (0 .. MaxResources) \ {1} }
            : t \in FirstTSChoices }

RECURSIVE CountReservations(_)
CountReservations(resources) ==
    IF resources = << >> THEN 0
    ELSE Len(Head(resources).reservations) + CountReservations(Tail(resources))

\* Options of findAvailableCourts.  The requested date is given as a
\* date-only string or as the ISO string of local midnight; a
\* minDurationMinutes of 0 is one that is not given.
FacOptions ==
    LET none   == [type |-> "", features |-> << >>, location |-> ""]
        day    == EpochDay + 1
        at(m)  == Iso(LocalInstant(day, m))
        opt(d, from, to, cf) ==
            [date |-> d, startTime |-> from, endTime |-> to, minDurationMinutes |-> 0,
             type |-> cf.type, features |-> cf.features, location |-> cf.location]
    IN  { [opt(DateOnly(day), NoString, NoString, none) EXCEPT !.minDurationMinutes = 60],
          [opt(DateOnly(day), NoString, NoString, none) EXCEPT !.minDurationMinutes = 120],
          opt(NoString, NoString, NoString, none),
          opt(Iso(LocalInstant(day, 0)), NoString, NoString, none),
          opt(DateOnly(day), NoString, NoString, none),
          opt(DateOnly(day), at(570), NoString, none),
          opt(DateOnly(day), NoString, at(660), none),
          opt(DateOnly(day), at(570), at(930), none),
          opt(DateOnly(day), NoString, NoString,
              [type |-> "pickleball", features |-> << "indoor" >>,
               location |-> "North"]) }

-----------------------------------------------------------------------------
(* Results of a call *)

NoResult == [kind |-> "none"]

Returned(value) == [kind |-> "returned", value |-> value]

\* throw new ClubExpressError(code, message)
Thrown(code, message) == [kind |-> "thrown", code |-> code, message |-> message]

\* An error that is no ClubExpressError (a TypeError and the like): it has
\* no code.
PlainError(message) == Thrown("", message)

\* error instanceof ClubExpressError
IsClubExpressError(error) == error.code # ""

\* What client.get / client.post reject with: handleRequestError throws one
\* of these for every failed request.
TransportErrors ==
    { Thrown("REQUEST_FAILED", "Request failed with status 500"),
      Thrown("NO_RESPONSE", "No response received from server"),
      Thrown("REQUEST_SETUP_ERROR", "Request setup error: <message>") }

\* The code and the message prefix of the error each method wraps a plain
\* error in.
FailureOf ==
    [findAllCourts |-> Thrown("COURTS_DISCOVERY_FAILED", "Failed to find courts: <message>"),
     findAvailableCourts |-> Thrown("COURTS_AVAILABILITY_FAILED",
                                    "Failed to find available courts: <message>"),
     bookCourt |-> Thrown("COURTS_BOOKING_FAILED", "Failed to book court: <message>"),
     cancelBooking |-> Thrown("COURTS_CANCELLATION_FAILED",
                              "Failed to cancel booking: <message>"),
     getMyBookings |-> Thrown("COURTS_GET_BOOKINGS_FAILED",
                              "Failed to get bookings: <message>")]

\* A catch block that wraps every error, ClubExpressError or not.
CatchWrapping(method, error) == FailureOf[method]

\* catch (error) { if (error instanceof ClubExpressError) throw error;
\*                 throw new ClubExpressError(code, prefix + message) }
Catch(method, error) ==
    IF IsClubExpressError(error) THEN error ELSE FailureOf[method]

NoGrid == [firstTS |-> 0, resources |-> << >>, null |-> TRUE]

-----------------------------------------------------------------------------
(* findAvailableCourts *)

\* The call up to its await of client.get(url).
FindAvailableCourts(options) ==
    /\ facPc = "idle"
    /\ facOptions' = options
    /\ IF ~authStatus
          THEN /\ facResult' = Thrown("COURTS_NOT_AUTHENTICATED",
                                "User must be authenticated to find available courts")
               /\ UNCHANGED << facPc, facDayOffset >>
       ELSE IF IsMissing(options.date)
          THEN /\ facResult' = Thrown("COURTS_INVALID_OPTIONS",
                                "Date is required to find available courts")
               /\ UNCHANGED << facPc, facDayOffset >>
       ELSE /\ facDayOffset' = diffDays(StartOfDay(now), StartOfDay(NewDate(options.date)))
            /\ facPc' = "awaitGrid"
            /\ facResult' = NoResult
    /\ facFree' = << >>
    /\ facSlots' = << >>
    /\ UNCHANGED << tzOffset, now, authStatus, gatewayBookings, gatewayGrid, lastGridData >>
    /\ UNCHANGED bookVars
    /\ UNCHANGED callVars
    /\ UNCHANGED concVars
    /\ UNCHANGED coreVars

\* client.get resolved with the gateway's grid: the rest of the call.
FindAvailableCourtsGrid ==
    /\ facPc = "awaitGrid"
    /\ LET gridData   == gatewayGrid
           targetDate == StartOfDay(NewDate(facOptions.date))
           map        == timeSlotMap(gridData.firstTS, targetDate)
       IN  /\ lastGridData' = gridData
           /\ facFree' = [k \in 1 .. Len(gridData.resources) |->
                             allTimeSlots(gridData.resources[k])]
           /\ facSlots' = [k \in 1 .. Len(gridData.resources) |->
                              availableSlots(gridData.resources[k], map)]
           /\ facResult' = Returned(filteredResults(
                              availabilityResults(gridData.resources, map, facOptions),
                              facOptions))
    /\ facPc' = "idle"
    /\ UNCHANGED << tzOffset, now, authStatus, gatewayBookings, gatewayGrid,
                    facOptions, facDayOffset >>
    /\ UNCHANGED bookVars
    /\ UNCHANGED callVars
    /\ UNCHANGED concVars
    /\ UNCHANGED coreVars

\* client.get rejected: the catch block of the method.
FindAvailableCourtsFailed ==
    /\ facPc = "awaitGrid"
    /\ \E error \in TransportErrors : facResult' = Catch("findAvailableCourts", error)
    /\ facPc' = "idle"
    /\ UNCHANGED << tzOffset, now, authStatus, gatewayBookings, gatewayGrid,
                    lastGridData, facOptions, facDayOffset, facFree, facSlots >>
    /\ UNCHANGED bookVars
    /\ UNCHANGED callVars
    /\ UNCHANGED concVars
    /\ UNCHANGED coreVars

\* client.setAuthStatus(status), called by the auth module.
SetAuthStatus(status) ==
    /\ authStatus # status
    /\ authStatus' = status
    /\ UNCHANGED << tzOffset, now, gatewayBookings, gatewayGrid >>
    /\ UNCHANGED facVars
    /\ UNCHANGED bookVars
    /\ UNCHANGED callVars
    /\ UNCHANGED concVars
    /\ UNCHANGED coreVars

\* Another member reserves reservation on the k-th resource of the grid.
GatewayReserve(k, reservation) ==
    /\ k \in 1 .. Len(gatewayGrid.resources)
    /\ Len(gatewayGrid.resources) > 1
          => reservation \in PlainReservationChoices(gatewayGrid.firstTS)
    /\ CountReservations(gatewayGrid.resources) < MaxReservations
    /\ gatewayGrid' =
          [gatewayGrid EXCEPT !.resources[k].reservations = Append(@, reservation)]
    /\ UNCHANGED << tzOffset, now, authStatus, gatewayBookings >>
    /\ UNCHANGED facVars
    /\ UNCHANGED bookVars
    /\ UNCHANGED callVars
    /\ UNCHANGED concVars
    /\ UNCHANGED coreVars

-----------------------------------------------------------------------------
(* bookCourt: the club rules *)

\* Rule 1: existingBookings.length > 0
hasExistingBooking(existingBookings) == Cardinality(existingBookings) > 0

\* maxBookingDate: new Date() with setDate(getDate() + 7)
maxBookingDate(t) == AddDays(t, maxAdvanceDays)

\* Rule 2: bookingDate > maxBookingDate
beyondAdvanceWindow(options, t) == NewDate(options.date) > maxBookingDate(t)

\* bookingOpenTime: new Date(maxBookingDate) with setHours(13, 0, 0, 0)
bookingOpenTime(t) == SetHours(maxBookingDate(t), bookingOpenHour, 0)

\* Rule 2, second part: bookingDate.toDateString() === maxBookingDate.toDateString()
\* and now < bookingOpenTime
beforeWindowOpens(options, t) ==
    /\ LocalDay(NewDate(options.date)) = LocalDay(maxBookingDate(t))
    /\ t < bookingOpenTime(t)

\* Rule 3: (endTimeObj.getTime() - startTimeObj.getTime()) / (1000 * 60)
durationMinutes(options) == NewDate(options.endTime) - NewDate(options.startTime)

\* wrongDuration that only rejects bookings that are too short (< 90).
wrongDurationShortOnly(options) == durationMinutes(options) < requiredDurationMinutes

wrongDuration(options) == durationMinutes(options) # requiredDurationMinutes

\* isValidStartTime that compares the hours alone.
isValidStartTimeHoursOnly(hours, minutes) == hours \in {8, 9, 11, 12, 14, 15, 17, 18, 20}

\* Rule 3, second part: the enumerated start times.
isValidStartTime(hours, minutes) ==
    \/ (hours = 8 /\ minutes = 0)
    \/ (hours = 9 /\ minutes = 30)
    \/ (hours = 11 /\ minutes = 0)
    \/ (hours = 12 /\ minutes = 30)
    \/ (hours = 14 /\ minutes = 0)
    \/ (hours = 15 /\ minutes = 30)
    \/ (hours = 17 /\ minutes = 0)
    \/ (hours = 18 /\ minutes = 30)
    \/ (hours = 20 /\ minutes = 0)

invalidStartTime(options) ==
    ~isValidStartTime(GetHours(NewDate(options.startTime)),
                      GetMinutes(NewDate(options.startTime)))

RuleViolation(message) == Thrown("COURTS_BOOKING_RULE_VIOLATION", message)

OnePerDayMessage ==
    "You can only reserve one court per day. You already have a booking for this date."
AdvanceBoundMessage == "Reservations can only be made up to 7 days in advance (until <date>)."
OpenTimeMessage == "Reservations for <date> open at 1:00 PM today."
BlockDurationMessage == "Reservations must be made in 1.5-hour blocks."
\* The start-time rule reporting with the words of the block-duration rule.
StartTimeMessageOfBlockRule == "Reservations must be made in 1.5-hour blocks."

StartTimeMessage ==
    "Reservations must start at valid times (8:00, 9:30, 11:00, 12:30, 14:00, 15:30, 17:00, 18:30, 20:00)."

\* validateBookingAgainstClubRules with the block rules checked before the
\* advance-window rules.
validateBlockRulesFirst(options, existingBookings, t) ==
    IF hasExistingBooking(existingBookings) THEN RuleViolation(OnePerDayMessage)
    ELSE IF wrongDuration(options) THEN RuleViolation(BlockDurationMessage)
    ELSE IF invalidStartTime(options) THEN RuleViolation(StartTimeMessage)
    ELSE IF beyondAdvanceWindow(options, t) THEN RuleViolation(AdvanceBoundMessage)
    ELSE IF beforeWindowOpens(options, t) THEN RuleViolation(OpenTimeMessage)
    ELSE NoResult

\* validateBookingAgainstClubRules after its await of getMyBookings: what it
\* throws, or NoResult when it returns.
validateBookingAgainstClubRules(options, existingBookings, t) ==
    IF hasExistingBooking(existingBookings) THEN RuleViolation(OnePerDayMessage)
    ELSE IF beyondAdvanceWindow(options, t) THEN RuleViolation(AdvanceBoundMessage)
    ELSE IF beforeWindowOpens(options, t) THEN RuleViolation(OpenTimeMessage)
    ELSE IF wrongDuration(options) THEN RuleViolation(BlockDurationMessage)
    ELSE IF invalidStartTime(options) THEN RuleViolation(StartTimeMessage)
    ELSE NoResult

\* formattedDate of the validator, bookingDate.toISOString().split('T')[0],
\* as getMyBookings reads it back: new Date(startDate), then
\* getMonth()/getDate()/getFullYear() for the start_date and end_date of the
\* query.
myBookingsQueryDay(options) == LocalDay(ParseDateOnly(ToISODate(NewDate(options.date))))

\* formattedDate of bookCourt: dateObj.getMonth()+1 / getDate() / getFullYear()
formattedDate(options) == LocalDay(NewDate(options.date))

\* formatTime(date): the 12-hour clock 'H:MM AM/PM'.
formatTime(t) ==
    LET hours == GetHours(t)
        h12   == hours % 12
    IN  [hours |-> IF h12 # 0 THEN h12 ELSE 12,
         minutes |-> GetMinutes(t),
         period |-> IF hours >= 12 THEN "PM" ELSE "AM"]

\* The my_bookings page of the gateway: the member's bookings dated within
\* [startDay, endDay].
MyBookingsPage(startDay, endDay) ==
    {b \in gatewayBookings : startDay <= b.day /\ b.day <= endDay}

\* missingOption with the options checked from endTime back to courtId.
missingOptionFromLast(options) ==
    IF IsMissing(options.endTime) THEN "End time is required to book a court"
    ELSE IF IsMissing(options.startTime) THEN "Start time is required to book a court"
    ELSE IF IsMissing(options.date) THEN "Date is required to book a court"
    ELSE IF options.courtId = "" THEN "Court ID is required to book a court"
    ELSE ""

\* The first required option that is missing, "" when none is.
missingOption(options) ==
    IF options.courtId = "" THEN "Court ID is required to book a court"
    ELSE IF IsMissing(options.date) THEN "Date is required to book a court"
    ELSE IF IsMissing(options.startTime) THEN "Start time is required to book a court"
    ELSE IF IsMissing(options.endTime) THEN "End time is required to book a court"
    ELSE ""

\* An optional string or list of strings of a request: left out (undefined)
\* or given with a value, which may be '' or [].
NoText == [given |-> FALSE, v |-> ""]

NoList == [given |-> FALSE, v |-> << >>]

Given(v) == [given |-> TRUE, v |-> v]

\* if (options.purpose), if (options.category): undefined and '' are falsy.
TruthyText(text) == text.given /\ text.v # ""

\* if (options.participants): every array is truthy, the empty one too.
TruthyList(list) == list.given

\* participants.join(',') as the list it encodes.
JoinedWithCommas(list) == Given(list.v)

\* BookingOf with the optional fields copied whether or not they are
\* truthy.
BookingOfEveryField(options) ==
    [court |-> [id |-> options.courtId],
     date |-> options.date,
     startTime |-> options.startTime,
     endTime |-> options.endTime,
     durationMinutes |-> durationMinutes(options),
     status |-> "Confirmed",
     bookedBy |-> "Current User",
     purpose |-> options.purpose,
     category |-> options.category,
     participants |-> options.participants]

\* The booking bookCourt returns: the optional fields are set only from
\* truthy options.
BookingOf(options) ==
    [court |-> [id |-> options.courtId],
     date |-> options.date,
     startTime |-> options.startTime,
     endTime |-> options.endTime,
     durationMinutes |-> durationMinutes(options),
     status |-> "Confirmed",
     bookedBy |-> "Current User",
     purpose |-> IF TruthyText(options.purpose) THEN options.purpose ELSE NoText,
     category |-> IF TruthyText(options.category) THEN options.category ELSE NoText,
     participants |-> IF TruthyList(options.participants)
                         THEN options.participants ELSE NoList]

-----------------------------------------------------------------------------
(* bookCourt *)

\* The call up to the await of client.get in getMyBookings.
BookCourt(options) ==
    /\ bookPc = "idle"
    /\ bookOptions' = options
    /\ bookExisting' = {}
    /\ IF ~authStatus
          THEN /\ bookResult' = Thrown("COURTS_NOT_AUTHENTICATED",
                                       "User must be authenticated to book a court")
               /\ bookRequests' = << >>
               /\ UNCHANGED bookPc
       ELSE IF missingOption(options) # ""
          THEN /\ bookResult' = Thrown("COURTS_INVALID_OPTIONS", missingOption(options))
               /\ bookRequests' = << >>
               /\ UNCHANGED bookPc
       ELSE /\ bookResult' = NoResult
            /\ bookRequests' = << [method |-> "GET", action |-> "my_bookings",
                                   start_date |-> myBookingsQueryDay(options),
                                   end_date |-> myBookingsQueryDay(options)] >>
            /\ bookPc' = "awaitMyBookings"
    /\ UNCHANGED << tzOffset, now, authStatus, gatewayBookings, gatewayGrid >>
    /\ UNCHANGED facVars
    /\ UNCHANGED callVars
    /\ UNCHANGED concVars
    /\ UNCHANGED coreVars

\* BookCourtValidate with the validator's promise not awaited: its
\* rejection is lost and the call goes on to the reservation page.
BookCourtValidateNotAwaited ==
    /\ bookPc = "awaitMyBookings"
    /\ bookExisting' = MyBookingsPage(bookRequests[1].start_date, bookRequests[1].end_date)
    /\ bookRequests' =
          Append(bookRequests,
                 [method |-> "GET", action |-> "reservation_page",
                  date |-> formattedDate(bookOptions)])
    /\ bookPc' = "awaitPage"
    /\ UNCHANGED << tzOffset, now, authStatus, gatewayBookings, gatewayGrid,
                    bookOptions, bookResult >>
    /\ UNCHANGED facVars
    /\ UNCHANGED callVars
    /\ UNCHANGED concVars
    /\ UNCHANGED coreVars

\* The my_bookings page arrived: the rules, then the GET of the
\* reservation page.
BookCourtValidate ==
    /\ bookPc = "awaitMyBookings"
    /\ LET query            == bookRequests[1]
           existingBookings == MyBookingsPage(query.start_date, query.end_date)
           violation        == validateBookingAgainstClubRules(bookOptions,
                                                               existingBookings, now)
       IN  /\ bookExisting' = existingBookings
           /\ IF violation # NoResult
                 THEN /\ bookResult' = violation
                      /\ bookPc' = "idle"
                      /\ UNCHANGED bookRequests
                 ELSE /\ bookRequests' =
                           Append(bookRequests,
                                  [method |-> "GET", action |-> "reservation_page",
                                   date |-> formattedDate(bookOptions)])
                      /\ bookPc' = "awaitPage"
                      /\ UNCHANGED bookResult
    /\ UNCHANGED << tzOffset, now, authStatus, gatewayBookings, gatewayGrid, bookOptions >>
    /\ UNCHANGED facVars
    /\ UNCHANGED callVars
    /\ UNCHANGED concVars
    /\ UNCHANGED coreVars

\* The reservation page arrived: the POST of the booking form.
BookCourtSubmit ==
    /\ bookPc = "awaitPage"
    /\ bookRequests' =
          Append(bookRequests,
                 [method |-> "POST", action |-> "book_court",
                  court_id |-> bookOptions.courtId,
                  date |-> formattedDate(bookOptions),
                  start_time |-> formatTime(NewDate(bookOptions.startTime)),
                  end_time |-> formatTime(NewDate(bookOptions.endTime)),
                  purpose |-> IF TruthyText(bookOptions.purpose)
                                 THEN bookOptions.purpose ELSE NoText,
                  category |-> IF TruthyText(bookOptions.category)
                                  THEN bookOptions.category ELSE NoText,
                  participants |->
                     IF TruthyList(bookOptions.participants)
                        /\ Len(bookOptions.participants.v) > 0
                        THEN JoinedWithCommas(bookOptions.participants) ELSE NoList])
    /\ bookPc' = "awaitPost"
    /\ UNCHANGED << tzOffset, now, authStatus, gatewayBookings, gatewayGrid,
                    bookOptions, bookExisting, bookResult >>
    /\ UNCHANGED facVars
    /\ UNCHANGED callVars
    /\ UNCHANGED concVars
    /\ UNCHANGED coreVars

\* The gateway took the booking: its response carries no error message.
BookCourtAccepted ==
    /\ bookPc = "awaitPost"
    /\ Cardinality(gatewayBookings) < MaxGatewayBookings
    /\ LET payload == bookRequests[Len(bookRequests)]
       IN  gatewayBookings' = gatewayBookings \cup
              { [day |-> payload.date, court |-> payload.court_id,
                 start_time |-> payload.start_time] }
    /\ bookResult' = Returned(BookingOf(bookOptions))
    /\ bookPc' = "idle"
    /\ UNCHANGED << tzOffset, now, authStatus, gatewayGrid,
                    bookOptions, bookExisting, bookRequests >>
    /\ UNCHANGED facVars
    /\ UNCHANGED callVars
    /\ UNCHANGED concVars
    /\ UNCHANGED coreVars

\* The gateway refused the booking: its response carries an error message.
BookCourtRefused ==
    /\ bookPc = "awaitPost"
    /\ bookResult' = Thrown("COURTS_BOOKING_FAILED", "Booking failed: <error-message>")
    /\ bookPc' = "idle"
    /\ UNCHANGED << tzOffset, now, authStatus, gatewayBookings, gatewayGrid,
                    bookOptions, bookExisting, bookRequests >>
    /\ UNCHANGED facVars
    /\ UNCHANGED callVars
    /\ UNCHANGED concVars
    /\ UNCHANGED coreVars

\* client.get or client.post rejected: the catch block of bookCourt, after
\* that of getMyBookings when the failed request was its.
BookCourtFailed ==
    /\ bookPc \in {"awaitMyBookings", "awaitPage", "awaitPost"}
    /\ \E error \in TransportErrors :
          bookResult' =
             IF bookPc = "awaitMyBookings"
                THEN Catch("bookCourt", Catch("getMyBookings", error))
                ELSE Catch("bookCourt", error)
    /\ bookPc' = "idle"
    /\ UNCHANGED << tzOffset, now, authStatus, gatewayBookings, gatewayGrid,
                    bookOptions, bookExisting, bookRequests >>
    /\ UNCHANGED facVars
    /\ UNCHANGED callVars
    /\ UNCHANGED concVars
    /\ UNCHANGED coreVars

-----------------------------------------------------------------------------
(* findAllCourts, cancelBooking, getMyBookings *)

\* The header cells of the first row of the reservation page's table: their
\* text, and the digits that /Court\s+(\d+)/i captures ("" without match).
CourtHeaders ==
    << [text |-> "Time", number |-> ""],
       [text |-> "Court 1", number |-> "1"],
       [text |-> "Notes", number |-> ""],
       [text |-> "Court 2", number |-> "2"] >>

\* courts: one per header but the first whose text matches; a court has an
\* id and a name only.
RECURSIVE CourtsOfHeaders(_)
CourtsOfHeaders(headers) ==
    IF headers = << >> THEN << >>
    ELSE LET header == Head(headers)
             rest   == CourtsOfHeaders(Tail(headers))
         IN  IF header.number # ""
                THEN << [id |-> header.number, name |-> header.text] >> \o rest
                ELSE rest

\* filteredCourts: a court has no type, features or location, so each
\* filter that is given drops every court.
filteredCourts(courts, options) ==
    IF options.type # "" \/ Len(options.features) > 0 \/ options.location # ""
       THEN << >>
       ELSE courts

\* start_date / end_date of the my_bookings query of getMyBookings: << >>
\* when the argument is not given, else the local day of new Date(arg).
QueryDay(s) == IF IsMissing(s) THEN << >> ELSE << LocalDay(NewDate(s)) >>

\* The my_bookings page the gateway serves for a query.
MyBookingsPageOf(query) ==
    {b \in gatewayBookings :
        /\ query.start_date = << >> \/ query.start_date[1] <= b.day
        /\ query.end_date = << >> \/ b.day <= query.end_date[1]}

\* findAllCourts up to its await of client.get.
FindAllCourts(options) ==
    /\ callPc = "idle"
    /\ callName' = "findAllCourts"
    /\ callOptions' = options
    /\ IF ~authStatus
          THEN /\ callResult' = Thrown("COURTS_NOT_AUTHENTICATED",
                                       "User must be authenticated to find courts")
               /\ callRequests' = << >>
               /\ UNCHANGED callPc
          ELSE /\ callResult' = NoResult
               /\ callRequests' = << [method |-> "GET", action |-> "reservation_page"] >>
               /\ callPc' = "awaitCourtsPage"
    /\ UNCHANGED << tzOffset, now, authStatus, gatewayBookings, gatewayGrid >>
    /\ UNCHANGED facVars
    /\ UNCHANGED bookVars
    /\ UNCHANGED concVars
    /\ UNCHANGED coreVars

\* The reservation page arrived: the courts of its header row, filtered.
FindAllCourtsPage ==
    /\ callPc = "awaitCourtsPage"
    /\ callResult' = Returned(filteredCourts(CourtsOfHeaders(Tail(CourtHeaders)),
                                             callOptions))
    /\ callPc' = "idle"
    /\ UNCHANGED << tzOffset, now, authStatus, gatewayBookings, gatewayGrid,
                    callName, callOptions, callRequests >>
    /\ UNCHANGED facVars
    /\ UNCHANGED bookVars
    /\ UNCHANGED concVars
    /\ UNCHANGED coreVars

\* CancelBooking with the bookingId checked before the auth status.
CancelBookingOptionFirst(options) ==
    /\ callPc = "idle"
    /\ callName' = "cancelBooking"
    /\ callOptions' = options
    /\ IF options.bookingId = ""
          THEN /\ callResult' = Thrown("COURTS_INVALID_OPTIONS",
                                       "Booking ID is required to cancel a booking")
               /\ callRequests' = << >>
               /\ UNCHANGED callPc
       ELSE IF ~authStatus
          THEN /\ callResult' = Thrown("COURTS_NOT_AUTHENTICATED",
                                       "User must be authenticated to cancel a booking")
               /\ callRequests' = << >>
               /\ UNCHANGED callPc
       ELSE /\ callResult' = NoResult
            /\ callRequests' = << [method |-> "GET", action |-> "booking_details",
                                   booking_id |-> options.bookingId] >>
            /\ callPc' = "awaitDetails"
    /\ UNCHANGED << tzOffset, now, authStatus, gatewayBookings, gatewayGrid >>
    /\ UNCHANGED facVars
    /\ UNCHANGED bookVars
    /\ UNCHANGED concVars
    /\ UNCHANGED coreVars

\* cancelBooking up to its await of client.get.
CancelBooking(options) ==
    /\ callPc = "idle"
    /\ callName' = "cancelBooking"
    /\ callOptions' = options
    /\ IF ~authStatus
          THEN /\ callResult' = Thrown("COURTS_NOT_AUTHENTICATED",
                                       "User must be authenticated to cancel a booking")
               /\ callRequests' = << >>
               /\ UNCHANGED callPc
       ELSE IF options.bookingId = ""
          THEN /\ callResult' = Thrown("COURTS_INVALID_OPTIONS",
                                       "Booking ID is required to cancel a booking")
               /\ callRequests' = << >>
               /\ UNCHANGED callPc
       ELSE /\ callResult' = NoResult
            /\ callRequests' = << [method |-> "GET", action |-> "booking_details",
                                   booking_id |-> options.bookingId] >>
            /\ callPc' = "awaitDetails"
    /\ UNCHANGED << tzOffset, now, authStatus, gatewayBookings, gatewayGrid >>
    /\ UNCHANGED facVars
    /\ UNCHANGED bookVars
    /\ UNCHANGED concVars
    /\ UNCHANGED coreVars

\* The booking details page arrived: the POST of the cancellation form.
CancelBookingSubmit ==
    /\ callPc = "awaitDetails"
    /\ callRequests' =
          Append(callRequests,
                 [method |-> "POST", action |-> "cancel_booking",
                  booking_id |-> callOptions.bookingId,
                  reason |-> callOptions.reason])
    /\ callPc' = "awaitCancel"
    /\ UNCHANGED << tzOffset, now, authStatus, gatewayBookings, gatewayGrid,
                    callName, callOptions, callResult >>
    /\ UNCHANGED facVars
    /\ UNCHANGED bookVars
    /\ UNCHANGED concVars
    /\ UNCHANGED coreVars

\* The gateway cancelled: its response carries no error message.  The
\* gateway's booking ids are those of the courts booked.
CancelBookingAccepted ==
    /\ callPc = "awaitCancel"
    /\ gatewayBookings' = {b \in gatewayBookings : b.court # callOptions.bookingId}
    /\ callResult' = Returned(TRUE)
    /\ callPc' = "idle"
    /\ UNCHANGED << tzOffset, now, authStatus, gatewayGrid,
                    callName, callOptions, callRequests >>
    /\ UNCHANGED facVars
    /\ UNCHANGED bookVars
    /\ UNCHANGED concVars
    /\ UNCHANGED coreVars

\* The gateway refused: its response carries an error message.
CancelBookingRefused ==
    /\ callPc = "awaitCancel"
    /\ callResult' = Thrown("COURTS_CANCELLATION_FAILED",
                            "Cancellation failed: <error-message>")
    /\ callPc' = "idle"
    /\ UNCHANGED << tzOffset, now, authStatus, gatewayBookings, gatewayGrid,
                    callName, callOptions, callRequests >>
    /\ UNCHANGED facVars
    /\ UNCHANGED bookVars
    /\ UNCHANGED concVars
    /\ UNCHANGED coreVars

\* getMyBookings, called by the user, up to its await of client.get.
GetMyBookings(options) ==
    /\ callPc = "idle"
    /\ callName' = "getMyBookings"
    /\ callOptions' = options
    /\ IF ~authStatus
          THEN /\ callResult' = Thrown("COURTS_NOT_AUTHENTICATED",
                                       "User must be authenticated to get bookings")
               /\ callRequests' = << >>
               /\ UNCHANGED callPc
          ELSE /\ callResult' = NoResult
               /\ callRequests' = << [method |-> "GET", action |-> "my_bookings",
                                      start_date |-> QueryDay(options.startDate),
                                      end_date |-> QueryDay(options.endDate)] >>
               /\ callPc' = "awaitBookingsPage"
    /\ UNCHANGED << tzOffset, now, authStatus, gatewayBookings, gatewayGrid >>
    /\ UNCHANGED facVars
    /\ UNCHANGED bookVars
    /\ UNCHANGED concVars
    /\ UNCHANGED coreVars

\* The my_bookings page arrived: the bookings of its table.
GetMyBookingsPage ==
    /\ callPc = "awaitBookingsPage"
    /\ callResult' = Returned(MyBookingsPageOf(callRequests[1]))
    /\ callPc' = "idle"
    /\ UNCHANGED << tzOffset, now, authStatus, gatewayBookings, gatewayGrid,
                    callName, callOptions, callRequests >>
    /\ UNCHANGED facVars
    /\ UNCHANGED bookVars
    /\ UNCHANGED concVars
    /\ UNCHANGED coreVars

\* client.get or client.post rejected: the catch block of the method.
CallFailed ==
    /\ callPc # "idle"
    /\ \E error \in TransportErrors : callResult' = Catch(callName, error)
    /\ callPc' = "idle"
    /\ UNCHANGED << tzOffset, now, authStatus, gatewayBookings, gatewayGrid,
                    callName, callOptions, callRequests >>
    /\ UNCHANGED facVars
    /\ UNCHANGED bookVars
    /\ UNCHANGED concVars
    /\ UNCHANGED coreVars

-----------------------------------------------------------------------------
(* Calls in flight together: findAvailableCourts *)

\* The calls of one method that may be in flight on one module.
CallIds == 1 .. MaxInFlight

\* A call of findAvailableCourts: its position, its options, the d= of its
\* request, the gridData it received and what it returned or threw.
IdleFacCall ==
    [pc |-> "idle",
     options |-> [date |-> NoString, startTime |-> NoString, endTime |-> NoString,
                  minDurationMinutes |-> 0,
                  type |-> "", features |-> << >>, location |-> ""],
     dayOffset |-> 0,
     gridData |-> NoGrid,
     result |-> NoResult]

\* The gateway's answer to the grid request with d= dayOffset: the grid of
\* the day that many days from today, named by its currentDate.
GridOfDay(dayOffset) ==
    [firstTS |-> gatewayGrid.firstTS,
     resources |-> gatewayGrid.resources,
     currentDate |-> LocalDay(now) + dayOffset]

\* resolveGrid that resolves the grid the module holds from an earlier
\* call, when it holds one, in place of the grid it was handed.
resolveGridOfModule(gridData, options) ==
    LET held == IF lastGridData = NoGrid THEN gridData ELSE lastGridData
        map  == timeSlotMap(held.firstTS, StartOfDay(NewDate(options.date)))
    IN  filteredResults(availabilityResults(held.resources, map, options), options)

\* What the call returns for gridData: from the time-slot map to the
\* filtered results.
resolveGrid(gridData, options) ==
    LET map == timeSlotMap(gridData.firstTS, StartOfDay(NewDate(options.date)))
    IN  filteredResults(availabilityResults(gridData.resources, map, options), options)

\* Call c up to its await of client.get(url).
StartFindAvailableCourts(c, options) ==
    /\ facCalls[c].pc = "idle"
    /\ facLastInvoked' = c
    /\ facCalls' =
          [facCalls EXCEPT ![c] =
              IF ~authStatus
                 THEN [IdleFacCall EXCEPT
                          !.options = options,
                          !.result = Thrown("COURTS_NOT_AUTHENTICATED",
                                "User must be authenticated to find available courts")]
              ELSE IF IsMissing(options.date)
                 THEN [IdleFacCall EXCEPT
                          !.options = options,
                          !.result = Thrown("COURTS_INVALID_OPTIONS",
                                "Date is required to find available courts")]
              ELSE [IdleFacCall EXCEPT
                       !.pc = "awaitGrid",
                       !.options = options,
                       !.dayOffset = diffDays(StartOfDay(now),
                                              StartOfDay(NewDate(options.date)))]]
    /\ UNCHANGED << tzOffset, now, authStatus, gatewayBookings, gatewayGrid >>
    /\ UNCHANGED facVars
    /\ UNCHANGED bookVars
    /\ UNCHANGED callVars
    /\ UNCHANGED bookCalls
    /\ UNCHANGED coreVars

\* client.get of call c resolved with the gateway's grid: the rest of the
\* call, which stores the grid in the module.
ResolveFindAvailableCourts(c) ==
    /\ facCalls[c].pc = "awaitGrid"
    /\ LET gridData == GridOfDay(facCalls[c].dayOffset)
       IN  /\ lastGridData' = gridData
           /\ facCalls' =
                 [facCalls EXCEPT
                     ![c].pc = "idle",
                     ![c].gridData = gridData,
                     ![c].result = Returned(resolveGrid(gridData, facCalls[c].options))]
    /\ UNCHANGED << tzOffset, now, authStatus, gatewayBookings, gatewayGrid >>
    /\ UNCHANGED << facPc, facOptions, facDayOffset, facFree, facSlots, facResult >>
    /\ UNCHANGED bookVars
    /\ UNCHANGED callVars
    /\ UNCHANGED << facLastInvoked, bookCalls >>
    /\ UNCHANGED coreVars

\* client.get of call c rejected: the catch block of the method.
FailFindAvailableCourts(c) ==
    /\ facCalls[c].pc = "awaitGrid"
    /\ \E error \in TransportErrors :
          facCalls' =
             [facCalls EXCEPT
                 ![c].pc = "idle",
                 ![c].result = Catch("findAvailableCourts", error)]
    /\ UNCHANGED << tzOffset, now, authStatus, gatewayBookings, gatewayGrid >>
    /\ UNCHANGED facVars
    /\ UNCHANGED bookVars
    /\ UNCHANGED callVars
    /\ UNCHANGED << facLastInvoked, bookCalls >>
    /\ UNCHANGED coreVars

-----------------------------------------------------------------------------
(* Calls in flight together: bookCourt *)

\* A call of bookCourt: its position, its options, the existingBookings of
\* its validator, the requests it has issued and what it returned or threw.
IdleBookCall ==
    [pc |-> "idle",
     options |-> [courtId |-> "", date |-> NoString, startTime |-> NoString,
                  endTime |-> NoString,
                  purpose |-> NoText, category |-> NoText, participants |-> NoList],
     existing |-> {},
     requests |-> << >>,
     result |-> NoResult]

\* Call c up to the await of client.get in getMyBookings.
StartBookCourt(c, options) ==
    /\ bookCalls[c].pc = "idle"
    /\ bookCalls' =
          [bookCalls EXCEPT ![c] =
              IF ~authStatus
                 THEN [IdleBookCall EXCEPT
                          !.options = options,
                          !.result = Thrown("COURTS_NOT_AUTHENTICATED",
                                            "User must be authenticated to book a court")]
              ELSE IF missingOption(options) # ""
                 THEN [IdleBookCall EXCEPT
                          !.options = options,
                          !.result = Thrown("COURTS_INVALID_OPTIONS",
                                            missingOption(options))]
              ELSE [IdleBookCall EXCEPT
                       !.pc = "awaitMyBookings",
                       !.options = options,
                       !.requests =
                           << [method |-> "GET", action |-> "my_bookings",
                               start_date |-> myBookingsQueryDay(options),
                               end_date |-> myBookingsQueryDay(options)] >>]]
    /\ UNCHANGED gatewayBookings
    /\ UNCHANGED << tzOffset, now, authStatus, gatewayGrid >>
    /\ UNCHANGED facVars
    /\ UNCHANGED bookVars
    /\ UNCHANGED callVars
    /\ UNCHANGED << facCalls, facLastInvoked >>
    /\ UNCHANGED coreVars

\* The my_bookings page of call c arrived, with the bookings the gateway
\* lists at that moment: the rules, then the GET of the reservation page.
ValidateBookCourt(c) ==
    /\ bookCalls[c].pc = "awaitMyBookings"
    /\ LET query            == bookCalls[c].requests[1]
           existingBookings == MyBookingsPage(query.start_date, query.end_date)
           violation        == validateBookingAgainstClubRules(bookCalls[c].options,
                                                               existingBookings, now)
       IN  bookCalls' =
              [bookCalls EXCEPT ![c] =
                  IF violation # NoResult
                     THEN [@ EXCEPT !.existing = existingBookings,
                                    !.result = violation,
                                    !.pc = "idle"]
                     ELSE [@ EXCEPT !.existing = existingBookings,
                                    !.requests =
                                        Append(@, [method |-> "GET",
                                                   action |-> "reservation_page",
                                                   date |-> formattedDate(bookCalls[c].options)]),
                                    !.pc = "awaitPage"]]
    /\ UNCHANGED gatewayBookings
    /\ UNCHANGED << tzOffset, now, authStatus, gatewayGrid >>
    /\ UNCHANGED facVars
    /\ UNCHANGED bookVars
    /\ UNCHANGED callVars
    /\ UNCHANGED << facCalls, facLastInvoked >>
    /\ UNCHANGED coreVars

\* The reservation page of call c arrived: the POST of the booking form.
SubmitBookCourt(c) ==
    /\ bookCalls[c].pc = "awaitPage"
    /\ LET options == bookCalls[c].options
       IN  bookCalls' =
              [bookCalls EXCEPT
                  ![c].requests =
                      Append(@, [method |-> "POST", action |-> "book_court",
                                 court_id |-> options.courtId,
                                 date |-> formattedDate(options),
                                 start_time |-> formatTime(NewDate(options.startTime)),
                                 end_time |-> formatTime(NewDate(options.endTime)),
                                 purpose |-> IF TruthyText(options.purpose)
                                                THEN options.purpose ELSE NoText,
                                 category |-> IF TruthyText(options.category)
                                                 THEN options.category ELSE NoText,
                                 participants |->
                                    IF TruthyList(options.participants)
                                       /\ Len(options.participants.v) > 0
                                       THEN JoinedWithCommas(options.participants)
                                       ELSE NoList]),
                  ![c].pc = "awaitPost"]
    /\ UNCHANGED gatewayBookings
    /\ UNCHANGED << tzOffset, now, authStatus, gatewayGrid >>
    /\ UNCHANGED facVars
    /\ UNCHANGED bookVars
    /\ UNCHANGED callVars
    /\ UNCHANGED << facCalls, facLastInvoked >>
    /\ UNCHANGED coreVars

\* The gateway took the booking of call c and lists it from now on: its
\* response carries no error message.
AcceptBookCourt(c) ==
    /\ bookCalls[c].pc = "awaitPost"
    /\ LET payload == bookCalls[c].requests[Len(bookCalls[c].requests)]
       IN  gatewayBookings' = gatewayBookings \cup
              { [day |-> payload.date, court |-> payload.court_id,
                 start_time |-> payload.start_time] }
    /\ bookCalls' =
          [bookCalls EXCEPT
              ![c].result = Returned(BookingOf(bookCalls[c].options)),
              ![c].pc = "idle"]
    /\ UNCHANGED << tzOffset, now, authStatus, gatewayGrid >>
    /\ UNCHANGED facVars
    /\ UNCHANGED bookVars
    /\ UNCHANGED callVars
    /\ UNCHANGED << facCalls, facLastInvoked >>
    /\ UNCHANGED coreVars

\* The gateway refused the booking of call c: its response carries an error
\* message.
RefuseBookCourt(c) ==
    /\ bookCalls[c].pc = "awaitPost"
    /\ bookCalls' =
          [bookCalls EXCEPT
              ![c].result = Thrown("COURTS_BOOKING_FAILED",
                                   "Booking failed: <error-message>"),
              ![c].pc = "idle"]
    /\ UNCHANGED gatewayBookings
    /\ UNCHANGED << tzOffset, now, authStatus, gatewayGrid >>
    /\ UNCHANGED facVars
    /\ UNCHANGED bookVars
    /\ UNCHANGED callVars
    /\ UNCHANGED << facCalls, facLastInvoked >>
    /\ UNCHANGED coreVars

\* client.get or client.post of call c rejected: the catch block of
\* bookCourt, after that of getMyBookings when the failed request was its.
FailBookCourt(c) ==
    /\ bookCalls[c].pc \in {"awaitMyBookings", "awaitPage", "awaitPost"}
    /\ \E error \in TransportErrors :
          bookCalls' =
             [bookCalls EXCEPT
                 ![c].result =
                     IF bookCalls[c].pc = "awaitMyBookings"
                        THEN Catch("bookCourt", Catch("getMyBookings", error))
                        ELSE Catch("bookCourt", error),
                 ![c].pc = "idle"]
    /\ UNCHANGED gatewayBookings
    /\ UNCHANGED << tzOffset, now, authStatus, gatewayGrid >>
    /\ UNCHANGED facVars
    /\ UNCHANGED bookVars
    /\ UNCHANGED callVars
    /\ UNCHANGED << facCalls, facLastInvoked >>
    /\ UNCHANGED coreVars

-----------------------------------------------------------------------------
(* The config-object client: requests and the retry of its interceptor *)

\* new ClubExpressClient(): the default configuration.
DefaultClient == clientConfig = [maxRetries |-> DefaultMaxRetries]

\* Errors axios rejects an attempt with: error.message, '' when it has
\* none.
AttemptErrors ==
    { "Network Error", "timeout of 30000ms exceeded",
      "Request failed with status code 500", "" }

\* HTTP statuses of a response axios resolves with.
ResponseStatuses == {200, 204, 302}

\* if (!config || !config.retry) config.retry = 0: an undefined counter
\* counts as 0.
retryOf(config) == IF config.retry = Undefined \/ config.retry = 0 THEN 0 ELSE config.retry

\* shouldRetry that lets the counter reach maxRetries + 1.
shouldRetryInclusive(retry, maxRetries) == retry <= maxRetries

\* config.retry < this.config.maxRetries
shouldRetry(retry, maxRetries) == retry < maxRetries

\* new ClubExpressError(error.message || 'Request failed',
\*                       { status, code: 'REQUEST_FAILED', cause })
RequestFailed(message) ==
    Thrown("REQUEST_FAILED", IF message # "" THEN message ELSE "Request failed")

\* client.get or client.post: the request is sent for the first time.
SendRequest(method) ==
    /\ reqPc = "idle"
    /\ reqPc' = "sent"
    /\ reqConfig' = [method |-> method, retry |-> Undefined]
    /\ reqAttempts' = 1
    /\ reqOutcome' = NoResult
    /\ UNCHANGED clientConfig
    /\ UNCHANGED << tzOffset, now, authStatus, gatewayBookings, gatewayGrid >>
    /\ UNCHANGED facVars
    /\ UNCHANGED bookVars
    /\ UNCHANGED callVars
    /\ UNCHANGED concVars
    /\ UNCHANGED sessionVars

\* The attempt succeeded: the response interceptor hands the response on
\* and the request resolves with it.
AttemptSucceeds(status) ==
    /\ reqPc = "sent"
    /\ reqOutcome' = Returned([status |-> status])
    /\ reqPc' = "idle"
    /\ UNCHANGED << clientConfig, reqConfig, reqAttempts >>
    /\ UNCHANGED << tzOffset, now, authStatus, gatewayBookings, gatewayGrid >>
    /\ UNCHANGED facVars
    /\ UNCHANGED bookVars
    /\ UNCHANGED callVars
    /\ UNCHANGED concVars
    /\ UNCHANGED sessionVars

\* The attempt failed: the error handler of the response interceptor
\* counts a retry and waits, or rejects with the SDK error.
AttemptFails(message) ==
    /\ reqPc = "sent"
    /\ LET retry == retryOf(reqConfig)
       IN  IF shouldRetry(retry, clientConfig.maxRetries)
              THEN /\ reqConfig' = [reqConfig EXCEPT !.retry = retry + 1]
                   /\ reqPc' = "backoff"
                   /\ UNCHANGED reqOutcome
              ELSE /\ reqConfig' = [reqConfig EXCEPT !.retry = retry]
                   /\ reqOutcome' = RequestFailed(message)
                   /\ reqPc' = "idle"
    /\ UNCHANGED << clientConfig, reqAttempts >>
    /\ UNCHANGED << tzOffset, now, authStatus, gatewayBookings, gatewayGrid >>
    /\ UNCHANGED facVars
    /\ UNCHANGED bookVars
    /\ UNCHANGED callVars
    /\ UNCHANGED concVars
    /\ UNCHANGED sessionVars

\* The delay of the backoff elapsed: return this.client(config) sends the
\* request again.
ResendRequest ==
    /\ reqPc = "backoff"
    /\ reqPc' = "sent"
    /\ reqAttempts' = reqAttempts + 1
    /\ UNCHANGED << clientConfig, reqConfig, reqOutcome >>
    /\ UNCHANGED << tzOffset, now, authStatus, gatewayBookings, gatewayGrid >>
    /\ UNCHANGED facVars
    /\ UNCHANGED bookVars
    /\ UNCHANGED callVars
    /\ UNCHANGED concVars
    /\ UNCHANGED sessionVars

-----------------------------------------------------------------------------
(* AuthModule: login, logout, isLoggedIn, validateSession *)

\* What the module looks for on a page: the login link or form, the logout
\* link or member-only content, and an .error-message element.
SessionPages == [hasLogin : BOOLEAN, hasMember : BOOLEAN, hasError : BOOLEAN]

\* What client.get / client.post of the module end with: a page, or one of
\* the errors of handleRequestError.
AuthResponses == { Returned(page) : page \in SessionPages } \cup TransportErrors

AuthAwaiting ==
    {"awaitMainPage", "awaitLoginPage", "awaitLoginPost", "awaitLogout",
     "awaitProfile", "awaitDashboard"}

\* The auth status after the continuation of the call that awaited
\* validateSession, with logout clearing it whatever the validation said.
authStatusWithLogoutClearing(call, isLoggedIn) ==
    IF call = "logout" THEN FALSE ELSE isLoggedIn

\* The auth status after the continuation of the call that awaited
\* validateSession: validateSession set it to isLoggedIn; login sets it to
\* true when isLoggedIn, logout to false when not.
authStatusAfter(call, isLoggedIn) ==
    IF call = "login" /\ isLoggedIn THEN TRUE
    ELSE IF call = "logout" /\ ~isLoggedIn THEN FALSE
    ELSE isLoggedIn

\* What the call returns or throws once validateSession has returned.
authResultAfter(call, isLoggedIn) ==
    IF call = "login"
       THEN IF isLoggedIn
               THEN Returned(TRUE)
               ELSE Thrown("LOGIN_FAILED",
                           "Login failed: Could not confirm successful login")
    ELSE IF call = "logout"
       THEN IF isLoggedIn
               THEN Thrown("LOGOUT_FAILED",
                           "Logout failed: Still logged in after logout attempt")
               ELSE Returned(TRUE)
    ELSE Returned(isLoggedIn)

\* validateSession returns isLoggedIn to the call that awaits it, having
\* set the auth status; the call goes on to its end.
SessionValidated(isLoggedIn) ==
    /\ lastValidation' = isLoggedIn
    /\ authStatus' = authStatusAfter(authCall, isLoggedIn)
    /\ authResult' = authResultAfter(authCall, isLoggedIn)
    /\ authPc' = "idle"

\* The gateway, or the transport, answers the request the call waits for.
GatewayAnswers(response) ==
    /\ authPc \in AuthAwaiting
    /\ authResponse = NoResult
    /\ authResponse' = response
    /\ UNCHANGED << authPc, authCall, authResult >>
    /\ UNCHANGED << authStatus, lastValidation >>
    /\ UNCHANGED << tzOffset, now, gatewayBookings, gatewayGrid >>
    /\ UNCHANGED facVars
    /\ UNCHANGED bookVars
    /\ UNCHANGED callVars
    /\ UNCHANGED concVars
    /\ UNCHANGED retryVars

\* login(username, password) up to its first await.
Login(username, password) ==
    /\ authPc = "idle"
    /\ authCall' = "login"
    /\ IF username = "" \/ password = ""
          THEN /\ authResult' = Thrown("LOGIN_MISSING_CREDENTIALS",
                                       "Username and password are required")
               /\ UNCHANGED authPc
          ELSE /\ authResult' = NoResult
               /\ authPc' = "awaitMainPage"
    /\ UNCHANGED authResponse
    /\ UNCHANGED << authStatus, lastValidation >>
    /\ UNCHANGED << tzOffset, now, gatewayBookings, gatewayGrid >>
    /\ UNCHANGED facVars
    /\ UNCHANGED bookVars
    /\ UNCHANGED callVars
    /\ UNCHANGED concVars
    /\ UNCHANGED retryVars

\* The main page arrived: the GET of the login page.
LoginMainPage ==
    /\ authPc = "awaitMainPage"
    /\ authResponse.kind = "returned"
    /\ authPc' = "awaitLoginPage"
    /\ authResponse' = NoResult
    /\ UNCHANGED << authCall, authResult >>
    /\ UNCHANGED << authStatus, lastValidation >>
    /\ UNCHANGED << tzOffset, now, gatewayBookings, gatewayGrid >>
    /\ UNCHANGED facVars
    /\ UNCHANGED bookVars
    /\ UNCHANGED callVars
    /\ UNCHANGED concVars
    /\ UNCHANGED retryVars

\* The login page arrived: the POST of the login form.
LoginPage ==
    /\ authPc = "awaitLoginPage"
    /\ authResponse.kind = "returned"
    /\ authPc' = "awaitLoginPost"
    /\ authResponse' = NoResult
    /\ UNCHANGED << authCall, authResult >>
    /\ UNCHANGED << authStatus, lastValidation >>
    /\ UNCHANGED << tzOffset, now, gatewayBookings, gatewayGrid >>
    /\ UNCHANGED facVars
    /\ UNCHANGED bookVars
    /\ UNCHANGED callVars
    /\ UNCHANGED concVars
    /\ UNCHANGED retryVars

\* The answer to the login form arrived: an error message on it ends the
\* call, otherwise validateSession asks for the profile page.
LoginSubmitted ==
    /\ authPc = "awaitLoginPost"
    /\ authResponse.kind = "returned"
    /\ IF authResponse.value.hasError
          THEN /\ authResult' = Thrown("LOGIN_ERROR", "Login failed: <error-message>")
               /\ authPc' = "idle"
          ELSE /\ authPc' = "awaitProfile"
               /\ UNCHANGED authResult
    /\ authResponse' = NoResult
    /\ UNCHANGED authCall
    /\ UNCHANGED << authStatus, lastValidation >>
    /\ UNCHANGED << tzOffset, now, gatewayBookings, gatewayGrid >>
    /\ UNCHANGED facVars
    /\ UNCHANGED bookVars
    /\ UNCHANGED callVars
    /\ UNCHANGED concVars
    /\ UNCHANGED retryVars

\* A request of login before its validation was rejected by the client:
\* nothing catches the error.
LoginRequestFailed ==
    /\ authPc \in {"awaitMainPage", "awaitLoginPage", "awaitLoginPost"}
    /\ authResponse.kind = "thrown"
    /\ authResult' = authResponse
    /\ authPc' = "idle"
    /\ authResponse' = NoResult
    /\ UNCHANGED authCall
    /\ UNCHANGED << authStatus, lastValidation >>
    /\ UNCHANGED << tzOffset, now, gatewayBookings, gatewayGrid >>
    /\ UNCHANGED facVars
    /\ UNCHANGED bookVars
    /\ UNCHANGED callVars
    /\ UNCHANGED concVars
    /\ UNCHANGED retryVars

\* logout() up to the await of its GET.
Logout ==
    /\ authPc = "idle"
    /\ authCall' = "logout"
    /\ authResult' = NoResult
    /\ authPc' = "awaitLogout"
    /\ UNCHANGED authResponse
    /\ UNCHANGED << authStatus, lastValidation >>
    /\ UNCHANGED << tzOffset, now, gatewayBookings, gatewayGrid >>
    /\ UNCHANGED facVars
    /\ UNCHANGED bookVars
    /\ UNCHANGED callVars
    /\ UNCHANGED concVars
    /\ UNCHANGED retryVars

\* The answer to the logout request arrived: validateSession asks for the
\* profile page.
LogoutRequested ==
    /\ authPc = "awaitLogout"
    /\ authResponse.kind = "returned"
    /\ authPc' = "awaitProfile"
    /\ authResponse' = NoResult
    /\ UNCHANGED << authCall, authResult >>
    /\ UNCHANGED << authStatus, lastValidation >>
    /\ UNCHANGED << tzOffset, now, gatewayBookings, gatewayGrid >>
    /\ UNCHANGED facVars
    /\ UNCHANGED bookVars
    /\ UNCHANGED callVars
    /\ UNCHANGED concVars
    /\ UNCHANGED retryVars

\* The logout request was rejected by the client: the catch block of
\* logout.
LogoutRequestFailed ==
    /\ authPc = "awaitLogout"
    /\ authResponse.kind = "thrown"
    /\ authResult' =
          IF IsClubExpressError(authResponse) THEN authResponse
          ELSE Thrown("LOGOUT_FAILED", "Logout failed: An error occurred during logout")
    /\ authPc' = "idle"
    /\ authResponse' = NoResult
    /\ UNCHANGED authCall
    /\ UNCHANGED << authStatus, lastValidation >>
    /\ UNCHANGED << tzOffset, now, gatewayBookings, gatewayGrid >>
    /\ UNCHANGED facVars
    /\ UNCHANGED bookVars
    /\ UNCHANGED callVars
    /\ UNCHANGED concVars
    /\ UNCHANGED retryVars

\* validateSession(), or isLoggedIn() which returns it, up to the await of
\* the profile page.
ValidateSession(method) ==
    /\ authPc = "idle"
    /\ authCall' = method
    /\ authResult' = NoResult
    /\ authPc' = "awaitProfile"
    /\ UNCHANGED authResponse
    /\ UNCHANGED << authStatus, lastValidation >>
    /\ UNCHANGED << tzOffset, now, gatewayBookings, gatewayGrid >>
    /\ UNCHANGED facVars
    /\ UNCHANGED bookVars
    /\ UNCHANGED callVars
    /\ UNCHANGED concVars
    /\ UNCHANGED retryVars

\* The profile page arrived: a login link or form means no session,
\* member content a session, neither a look at the dashboard.
ProfilePage ==
    /\ authPc = "awaitProfile"
    /\ authResponse.kind = "returned"
    /\ LET page == authResponse.value
       IN  IF page.hasLogin THEN SessionValidated(FALSE)
           ELSE IF page.hasMember THEN SessionValidated(TRUE)
           ELSE /\ authPc' = "awaitDashboard"
                /\ UNCHANGED << authStatus, lastValidation, authResult >>
    /\ authResponse' = NoResult
    /\ UNCHANGED authCall
    /\ UNCHANGED << tzOffset, now, gatewayBookings, gatewayGrid >>
    /\ UNCHANGED facVars
    /\ UNCHANGED bookVars
    /\ UNCHANGED callVars
    /\ UNCHANGED concVars
    /\ UNCHANGED retryVars

\* The dashboard arrived: member content without a login link means a
\* session, anything else none.
DashboardPage ==
    /\ authPc = "awaitDashboard"
    /\ authResponse.kind = "returned"
    /\ LET page == authResponse.value
       IN  IF page.hasLogin THEN SessionValidated(FALSE)
           ELSE IF page.hasMember THEN SessionValidated(TRUE)
           ELSE SessionValidated(FALSE)
    /\ authResponse' = NoResult
    /\ UNCHANGED authCall
    /\ UNCHANGED << tzOffset, now, gatewayBookings, gatewayGrid >>
    /\ UNCHANGED facVars
    /\ UNCHANGED bookVars
    /\ UNCHANGED callVars
    /\ UNCHANGED concVars
    /\ UNCHANGED retryVars

\* A request of validateSession was rejected by the client: its catch
\* block sets the status to false and returns false.
ValidationRequestFailed ==
    /\ authPc \in {"awaitProfile", "awaitDashboard"}
    /\ authResponse.kind = "thrown"
    /\ SessionValidated(FALSE)
    /\ authResponse' = NoResult
    /\ UNCHANGED authCall
    /\ UNCHANGED << tzOffset, now, gatewayBookings, gatewayGrid >>
    /\ UNCHANGED facVars
    /\ UNCHANGED bookVars
    /\ UNCHANGED callVars
    /\ UNCHANGED concVars
    /\ UNCHANGED retryVars

-----------------------------------------------------------------------------
(* Specification of the availability resolver *)

InitModule ==
    /\ authStatus = FALSE
    /\ lastGridData = NoGrid
    /\ facPc = "idle"
    /\ facOptions = [date |-> NoString, startTime |-> NoString, endTime |-> NoString,
                     minDurationMinutes |-> 0,
                     type |-> "", features |-> << >>, location |-> ""]
    /\ facDayOffset = 0
    /\ facFree = << >>
    /\ facSlots = << >>
    /\ facResult = NoResult
    /\ bookPc = "idle"
    /\ bookOptions = [courtId |-> "", date |-> NoString, startTime |-> NoString,
                      endTime |-> NoString,
                      purpose |-> NoText, category |-> NoText, participants |-> NoList]
    /\ bookExisting = {}
    /\ bookRequests = << >>
    /\ bookResult = NoResult
    /\ callPc = "idle"
    /\ callName = ""
    /\ callOptions = [bookingId |-> "", reason |-> ""]
    /\ callRequests = << >>
    /\ callResult = NoResult
    /\ facCalls = [c \in CallIds |-> IdleFacCall]
    /\ facLastInvoked = 0
    /\ bookCalls = [c \in CallIds |-> IdleBookCall]
    /\ reqPc = "idle"
    /\ reqConfig = [method |-> "", retry |-> Undefined]
    /\ reqAttempts = 0
    /\ reqOutcome = NoResult
    /\ authPc = "idle"
    /\ authCall = ""
    /\ authResult = NoResult
    /\ lastValidation = FALSE
    /\ authResponse = NoResult

InitResolve ==
    /\ tzOffset \in TimeZones
    /\ now = LocalInstant(EpochDay, 780)
    /\ gatewayBookings = {}
    /\ gatewayGrid \in InitialGrids
    /\ DefaultClient
    /\ InitModule

NextResolve ==
    \/ \E status \in BOOLEAN : SetAuthStatus(status)
    \/ \E k \in 1 .. MaxResources + 1 :
          \E reservation \in ReservationChoices(gatewayGrid.firstTS) :
             GatewayReserve(k, reservation)
    \/ \E options \in FacOptions : FindAvailableCourts(options)
    \/ FindAvailableCourtsGrid
    \/ FindAvailableCourtsFailed

SpecResolve == InitResolve /\ [][NextResolve]_vars

-----------------------------------------------------------------------------
(* Specification of the booking flow *)

\* Bookings the member holds before the first call: today at 8:00 AM on
\* court 1, and in seven days at 5:00 PM on court 2.
EarlierBookings ==
    { [day |-> EpochDay, court |-> "1",
       start_time |-> [hours |-> 8, minutes |-> 0, period |-> "AM"]],
      [day |-> EpochDay + maxAdvanceDays, court |-> "2",
       start_time |-> [hours |-> 5, minutes |-> 0, period |-> "PM"]] }

\* Requested dates: today, in seven days and in eight days, each as a
\* date-only string, as the ISO string of local midnight and as the ISO
\* string of 2:00 PM local time.
BookDays == {EpochDay, EpochDay + maxAdvanceDays, EpochDay + maxAdvanceDays + 1}

BookDates(day) ==
    { DateOnly(day), Iso(LocalInstant(day, 0)), Iso(LocalInstant(day, 840)) }

\* Start time of day and length in minutes: 8:00 AM for 90, 60 and 180
\* minutes, 8:15 AM for 90 and 60 minutes, 9:00 AM, 9:30 AM and 8:00 PM
\* for 90 minutes.
BookTimes ==
    { << 480, 90 >>, << 480, 60 >>, << 480, 180 >>,
      << 495, 90 >>, << 495, 60 >>,
      << 540, 90 >>, << 570, 90 >>, << 1200, 90 >> }

BookingOptionsAt(court, day, date, time) ==
    [courtId |-> court, date |-> date,
     startTime |-> Iso(LocalInstant(day, time[1])),
     endTime |-> Iso(LocalInstant(day, time[1]) + time[2]),
     purpose |-> NoText, category |-> NoText, participants |-> NoList]

\* Court 1 on every date at every time, court 2 today at 8:00 AM and at
\* 8:00 PM.
CompleteBookingOptions ==
    UNION { { BookingOptionsAt("1", day, date, time)
              : << date, time >> \in BookDates(day) \X BookTimes }
            : day \in BookDays }
    \cup { BookingOptionsAt("2", EpochDay, date, time)
           : << date, time >> \in BookDates(EpochDay) \X {<< 480, 90 >>, << 1200, 90 >>} }

\* Options with required fields left empty.
IncompleteBookingOptions ==
    LET full == BookingOptionsAt("1", EpochDay, DateOnly(EpochDay), << 480, 90 >>)
    IN  { [full EXCEPT !.courtId = ""],
          [full EXCEPT !.date = NoString],
          [full EXCEPT !.startTime = NoString],
          [full EXCEPT !.endTime = NoString],
          [full EXCEPT !.courtId = "", !.endTime = NoString],
          [full EXCEPT !.date = NoString, !.startTime = NoString] }

\* Court 1 at 8:00 AM for 90 minutes on every day, with a purpose, a
\* category and participants: all three given, given empty, and only some
\* given.
DetailedBookingOptions ==
    { [BookingOptionsAt("1", day, DateOnly(day), << 480, 90 >>)
          EXCEPT !.purpose = details[1], !.category = details[2],
                 !.participants = details[3]]
      : << day, details >> \in
           BookDays \X { << Given("Practice"), Given("Singles"), Given(<< "Ann", "Bob" >>) >>,
                         << Given(""), Given(""), Given(<< >>) >>,
                         << Given("Practice"), NoText, Given(<< >>) >>,
                         << NoText, Given(""), Given(<< "Ann" >>) >> } }

BookingOptions ==
    CompleteBookingOptions \cup IncompleteBookingOptions \cup DetailedBookingOptions

InitBooking ==
    /\ tzOffset \in TimeZones
    /\ now \in {LocalInstant(EpochDay, m) : m \in NowMinutes}
    /\ gatewayBookings \in SUBSET EarlierBookings
    /\ gatewayGrid = NoGrid
    /\ DefaultClient
    /\ InitModule

NextBooking ==
    \/ \E status \in BOOLEAN : SetAuthStatus(status)
    \/ \E options \in BookingOptions : BookCourt(options)
    \/ BookCourtValidate
    \/ BookCourtSubmit
    \/ BookCourtAccepted
    \/ BookCourtRefused
    \/ BookCourtFailed

SpecBooking == InitBooking /\ [][NextBooking]_vars

-----------------------------------------------------------------------------
(* Specification of the five methods together *)

\* Options of the calls: few of each, some with required options missing.
CallsFacOptions ==
    { [date |-> d, startTime |-> NoString, endTime |-> NoString,
       minDurationMinutes |-> 0,
       type |-> "", features |-> << >>, location |-> ""]
      : d \in {NoString, DateOnly(EpochDay + 1)} }

\* A complete request, and requests that lack the last, the last two, the
\* last three and all of courtId, date, startTime and endTime.
CallsBookingOptions ==
    LET full == BookingOptionsAt("1", EpochDay, DateOnly(EpochDay), << 480, 90 >>)
    IN  { full,
          [full EXCEPT !.endTime = NoString],
          [full EXCEPT !.startTime = NoString, !.endTime = NoString],
          [full EXCEPT !.date = NoString, !.startTime = NoString, !.endTime = NoString],
          [full EXCEPT !.courtId = "", !.date = NoString, !.startTime = NoString,
                       !.endTime = NoString] }

CourtFilterOptions ==
    { [type |-> "", features |-> << >>, location |-> ""] }

CancelBookingOptions ==
    { [bookingId |-> id, reason |-> reason]
      : << id, reason >> \in {<< "", "Rain" >>, << "1", "" >>} }

MyBookingsOptions ==
    { [startDate |-> NoString, endDate |-> NoString],
      [startDate |-> DateOnly(EpochDay), endDate |-> DateOnly(EpochDay)] }

InitCalls ==
    /\ tzOffset = 0
    /\ now = LocalInstant(EpochDay, 780)
    /\ gatewayBookings = {}
    /\ gatewayGrid \in {g \in InitialGrids :
                            /\ Len(g.resources) = 1
                            /\ OpenTimeSlots(g.resources[1]) = MappedSlots(g.firstTS)}
    /\ DefaultClient
    /\ InitModule

NextCalls ==
    \/ \E status \in BOOLEAN : SetAuthStatus(status)
    \/ \E options \in CallsFacOptions : FindAvailableCourts(options)
    \/ FindAvailableCourtsGrid
    \/ FindAvailableCourtsFailed
    \/ \E options \in CallsBookingOptions : BookCourt(options)
    \/ BookCourtValidate
    \/ BookCourtSubmit
    \/ BookCourtAccepted
    \/ BookCourtRefused
    \/ BookCourtFailed
    \/ \E options \in CourtFilterOptions : FindAllCourts(options)
    \/ FindAllCourtsPage
    \/ \E options \in CancelBookingOptions : CancelBooking(options)
    \/ CancelBookingSubmit
    \/ CancelBookingAccepted
    \/ CancelBookingRefused
    \/ \E options \in MyBookingsOptions : GetMyBookings(options)
    \/ GetMyBookingsPage
    \/ CallFailed

SpecCalls == InitCalls /\ [][NextCalls]_vars

-----------------------------------------------------------------------------
(* Specification of findAvailableCourts calls in flight together *)

\* Options of the overlapping calls: tomorrow as the ISO string of local
\* midnight, with and without a start-time filter, and the day after
\* tomorrow.
OverlapFacOptions ==
    LET opt(d, from) ==
            [date |-> d, startTime |-> from, endTime |-> NoString,
             minDurationMinutes |-> 0,
             type |-> "", features |-> << >>, location |-> ""]
    IN  { opt(Iso(LocalInstant(EpochDay + 1, 0)), NoString),
          opt(Iso(LocalInstant(EpochDay + 1, 0)),
              Iso(LocalInstant(EpochDay + 1, 570))),
          opt(Iso(LocalInstant(EpochDay + 2, 0)), NoString) }

InitOverlap ==
    /\ tzOffset \in TimeZones
    /\ now = LocalInstant(EpochDay, 780)
    /\ gatewayBookings = {}
    /\ gatewayGrid \in {g \in InitialGrids :
                            /\ Len(g.resources) = 1
                            /\ OpenTimeSlots(g.resources[1]) = MappedSlots(g.firstTS)}
    /\ DefaultClient
    /\ InitModule

NextOverlap ==
    \/ \E status \in BOOLEAN : SetAuthStatus(status)
    \/ GatewayReserve(1, [firstTS |-> gatewayGrid.firstTS + 6,
                          lastTS |-> gatewayGrid.firstTS + 11])
    \/ \E c \in CallIds : \E options \in OverlapFacOptions :
          StartFindAvailableCourts(c, options)
    \/ \E c \in CallIds : ResolveFindAvailableCourts(c)
    \/ \E c \in CallIds : FailFindAvailableCourts(c)

SpecOverlap == InitOverlap /\ [][NextOverlap]_vars

-----------------------------------------------------------------------------
(* Specification of bookCourt calls in flight together *)

\* Requests of the overlapping calls: court 1 and court 2 today at 8:00 AM
\* for 90 minutes, and court 1 tomorrow at 8:00 AM for 90 minutes.
OverlapBookingOptions ==
    { BookingOptionsAt("1", EpochDay, DateOnly(EpochDay), << 480, 90 >>),
      BookingOptionsAt("2", EpochDay, DateOnly(EpochDay), << 480, 90 >>),
      BookingOptionsAt("1", EpochDay + 1, DateOnly(EpochDay + 1), << 480, 90 >>) }

InitRace ==
    /\ tzOffset = 0
    /\ now = LocalInstant(EpochDay, 780)
    /\ gatewayBookings = {}
    /\ gatewayGrid = NoGrid
    /\ DefaultClient
    /\ InitModule

NextRace ==
    \/ \E status \in BOOLEAN : SetAuthStatus(status)
    \/ \E c \in CallIds : \E options \in OverlapBookingOptions : StartBookCourt(c, options)
    \/ \E c \in CallIds : ValidateBookCourt(c)
    \/ \E c \in CallIds : SubmitBookCourt(c)
    \/ \E c \in CallIds : AcceptBookCourt(c)
    \/ \E c \in CallIds : RefuseBookCourt(c)
    \/ \E c \in CallIds : FailBookCourt(c)

SpecRace == InitRace /\ [][NextRace]_vars

-----------------------------------------------------------------------------
(* Specification of the requests of the config-object client *)

\* maxRetries of the configuration the client was made with: none given
\* (the default), or 0, 1 or 2.
ClientConfigs == { [maxRetries |-> n] : n \in 0 .. DefaultMaxRetries }

InitRetry ==
    /\ tzOffset = 0
    /\ now = LocalInstant(EpochDay, 780)
    /\ gatewayBookings = {}
    /\ gatewayGrid = NoGrid
    /\ clientConfig \in ClientConfigs
    /\ InitModule

NextRetry ==
    \/ \E method \in {"GET", "POST"} : SendRequest(method)
    \/ \E status \in ResponseStatuses : AttemptSucceeds(status)
    \/ \E message \in AttemptErrors : AttemptFails(message)
    \/ ResendRequest

SpecRetry == InitRetry /\ [][NextRetry]_vars

-----------------------------------------------------------------------------
(* Specification of the calls of AuthModule *)

\* Credentials: a user name and a password, each given or empty.
Credentials == {"", "member"} \X {"", "secret"}

InitAuth ==
    /\ tzOffset = 0
    /\ now = LocalInstant(EpochDay, 780)
    /\ gatewayBookings = {}
    /\ gatewayGrid = NoGrid
    /\ DefaultClient
    /\ InitModule

NextAuth ==
    \/ \E credentials \in Credentials : Login(credentials[1], credentials[2])
    \/ \E response \in AuthResponses : GatewayAnswers(response)
    \/ LoginMainPage
    \/ LoginPage
    \/ LoginSubmitted
    \/ LoginRequestFailed
    \/ Logout
    \/ LogoutRequested
    \/ LogoutRequestFailed
    \/ \E method \in {"validateSession", "isLoggedIn"} : ValidateSession(method)
    \/ ProfilePage
    \/ DashboardPage
    \/ ValidationRequestFailed

SpecAuth == InitAuth /\ [][NextAuth]_vars

-----------------------------------------------------------------------------
(* Properties of the availability resolver (SpecResolve) *)

\* While facSlots is not empty, lastGridData is the grid and facOptions the
\* options of the call that computed it.
ResolvedFirstTS == lastGridData.firstTS

ResolvedDay == StartOfDay(NewDate(facOptions.date))

\* The linear slot-to-time mapping: slot firstTS starts at 8:00 AM of the
\* requested day, and every slot is 15 minutes long.
SlotStart(s) ==
    ResolvedDay + TemplateOpenMinute + (s - ResolvedFirstTS) * SlotMinutes

SlotUniverse == (ResolvedFirstTS - 12) .. (LastMapped(ResolvedFirstTS) + 12)

\* The slots whose start lies within a block.
BlockSlots(block) ==
    {s \in SlotUniverse : block.startTime <= SlotStart(s) /\ SlotStart(s) < block.endTime}

Reserved(resource, s) ==
    \E n \in 1 .. Len(resource.reservations) :
        /\ resource.reservations[n].firstTS <= s
        /\ s <= resource.reservations[n].lastTS

\* A resource whose open range the grid does not give.
Malformed(resource) ==
    resource.firstAvailableTS = Undefined \/ resource.lastAvailableTS = Undefined

\* The open range of a resource; a malformed resource has none.
OpenSlots(resource) ==
    IF Malformed(resource) THEN {}
    ELSE resource.firstAvailableTS .. resource.lastAvailableTS

\* The open slots of a resource that no reservation covers.
FreeSlots(resource) == {s \in OpenSlots(resource) : ~Reserved(resource, s)}

\* The maximal runs of contiguous slots of F, as << first slot, length >>.
RunLength(F, s) ==
    CHOOSE len \in 1 .. Cardinality(F) : (s .. s + len - 1) \subseteq F /\ s + len \notin F

Runs(F) == { << s, RunLength(F, s) >> : s \in {x \in F : x - 1 \notin F} }

\* The slots at which the blocks emitted for the k-th resource start.
BlockStartSlots(k) ==
    {s \in SlotUniverse :
        \E n \in 1 .. Len(facSlots[k]) : facSlots[k][n].startTime = SlotStart(s)}

\* The starts s + 6j of the floor(L / 6) blocks of a run of L slots from s.
RunBlockStarts(run) == {run[1] + 6 * j : j \in 0 .. (run[2] \div 6) - 1}

\* A block of 6 slots from s lies in the window the time-slot map covers.
InTemplateWindow(s) ==
    s >= ResolvedFirstTS /\ s + 5 <= LastMapped(ResolvedFirstTS)

\* The blocks of one resource are in ascending order, 90 minutes each.
AscendingBlocks(blocks) ==
    /\ \A n \in 1 .. Len(blocks) : blocks[n].endTime = blocks[n].startTime + 90
    /\ \A n \in 1 .. Len(blocks) - 1 : blocks[n].endTime <= blocks[n + 1].startTime

\* C1: every block emitted for a resource is exactly 6 consecutive slots,
\* each of them in the resource's open range and in none of its
\* reservations; so no block comes from fewer than 6 contiguous free slots.
C1_BlocksAreSixFreeSlots ==
    \A k \in 1 .. Len(facSlots) :
        \A n \in 1 .. Len(facSlots[k]) :
            LET block == facSlots[k][n]
                S     == BlockSlots(block)
            IN  /\ Cardinality(S) = 6
                /\ \E s \in S : /\ S = s .. s + 5
                                /\ block.startTime = SlotStart(s)
                                /\ block.endTime = SlotStart(s + 5) + SlotMinutes
                /\ S \subseteq FreeSlots(lastGridData.resources[k])

\* C1 witness: blocks were emitted for a resource that has a reserved open
\* slot and a free run shorter than 6 slots.
C1_Witness ==
    \E k \in 1 .. Len(facSlots) :
        LET resource == lastGridData.resources[k]
        IN  /\ Len(facSlots[k]) > 0
            /\ \E s \in OpenSlots(resource) : Reserved(resource, s)
            /\ \E run \in Runs(FreeSlots(resource)) : run[2] < 6

\* C2 as amended: of the floor(L / 6) blocks s + 6j .. s + 6j + 5 of every
\* maximal free run, exactly those inside the template window
\* [firstTS, firstTS + 41] are emitted, in ascending order and disjoint.
C2_RunsYieldTheirBlocksInsideTheWindow ==
    \A k \in 1 .. Len(facSlots) :
        /\ BlockStartSlots(k) =
              UNION { {s \in RunBlockStarts(run) : InTemplateWindow(s)}
                      : run \in Runs(FreeSlots(lastGridData.resources[k])) }
        /\ Len(facSlots[k]) = Cardinality(BlockStartSlots(k))
        /\ AscendingBlocks(facSlots[k])

\* C2 as stated: every maximal free run of L slots from s yields exactly
\* the floor(L / 6) blocks s + 6j .. s + 6j + 5, disjoint.
C2_RunsYieldAllTheirBlocks ==
    \A k \in 1 .. Len(facSlots) :
        /\ BlockStartSlots(k) =
              UNION { RunBlockStarts(run)
                      : run \in Runs(FreeSlots(lastGridData.resources[k])) }
        /\ Len(facSlots[k]) = Cardinality(BlockStartSlots(k))
        /\ AscendingBlocks(facSlots[k])

\* C2 witness: a resource whose only free run has exactly 12 slots, inside
\* the window, was resolved to exactly 2 blocks.
C2_Witness ==
    \E k \in 1 .. Len(facSlots) :
        /\ \E run \in Runs(FreeSlots(lastGridData.resources[k])) :
              run[2] = 12 /\ InTemplateWindow(run[1]) /\ InTemplateWindow(run[1] + 6)
        /\ Cardinality(Runs(FreeSlots(lastGridData.resources[k]))) = 1
        /\ Len(facSlots[k]) = 2

\* C10: every emitted block starts on a boundary firstTS + 6j of the block
\* template, at a time of day the validator accepts as a start time.
C10_BlocksStartOnTemplateBoundaries ==
    \A k \in 1 .. Len(facSlots) :
        \A n \in 1 .. Len(facSlots[k]) :
            LET startTime == facSlots[k][n].startTime
            IN  /\ \E j \in 0 .. Len(timeSlots) - 1 :
                      startTime = SlotStart(ResolvedFirstTS + 6 * j)
                /\ isValidStartTime(GetHours(startTime), GetMinutes(startTime))

-----------------------------------------------------------------------------
(* Properties of the booking rules (SpecBooking) *)

IsRuleViolation(result) ==
    result.kind = "thrown" /\ result.code = "COURTS_BOOKING_RULE_VIOLATION"

\* The validator has decided the current call: it threw a rule violation,
\* or the call went on to the reservation page.  Until the gateway accepts
\* a booking, now, bookExisting and gatewayBookings are then what the
\* validator saw.
Validated == IsRuleViolation(bookResult) \/ Len(bookRequests) >= 2

\* The message of the violation the validator reported, "pass" if none.
ValidatorOutcome == IF IsRuleViolation(bookResult) THEN bookResult.message ELSE "pass"

\* The calendar date the request is for, as bookCourt submits it.
RequestedDay == formattedDate(bookOptions)

Today == LocalDay(now)

\* The five rules in the order of the claim, each with what it reports.
RuleOrder ==
    << [violated |-> hasExistingBooking(bookExisting), message |-> OnePerDayMessage],
       [violated |-> beyondAdvanceWindow(bookOptions, now), message |-> AdvanceBoundMessage],
       [violated |-> beforeWindowOpens(bookOptions, now), message |-> OpenTimeMessage],
       [violated |-> wrongDuration(bookOptions), message |-> BlockDurationMessage],
       [violated |-> invalidStartTime(bookOptions), message |-> StartTimeMessage] >>

ViolatedRules == {i \in 1 .. Len(RuleOrder) : RuleOrder[i].violated}

FirstViolation ==
    IF ViolatedRules = {} THEN "pass"
    ELSE RuleOrder[CHOOSE i \in ViolatedRules : \A j \in ViolatedRules : i <= j].message

\* C3: the validator reports the violation that comes first in the order
\* one-booking-per-day, advance-window bound, opening time, block duration,
\* valid start time, and nothing else; it passes only if no rule is violated.
C3_FirstViolationWins == Validated => ValidatorOutcome = FirstViolation

\* C3 witness: a request that violates three rules was rejected with the
\* first of them.
C3_Witness ==
    /\ Validated
    /\ Cardinality(ViolatedRules) >= 3
    /\ 1 \notin ViolatedRules
    /\ ValidatorOutcome = FirstViolation

\* C4: a request dated today + 7, with no booking on that date, that the
\* advance-window bound lets through is rejected by the opening-time rule
\* exactly when it is made before 1:00 PM today.
C4_OpensAtOnePMToday ==
    ( /\ Validated
      /\ RequestedDay = Today + 7
      /\ bookExisting = {}
      /\ \A b \in gatewayBookings : b.day # RequestedDay
      /\ ValidatorOutcome # AdvanceBoundMessage )
    => (ValidatorOutcome = OpenTimeMessage <=> LocalMinuteOfDay(now) < 13 * 60)

\* C5: with no booking found, the advance-window-bound rule rejects a
\* request exactly when its calendar date is later than today + 7.
C5_BoundIsByCalendarDate ==
    (Validated /\ bookExisting = {})
    => (ValidatorOutcome = AdvanceBoundMessage <=> RequestedDay > Today + 7)

\* C6: the request is rejected by the one-booking-per-day rule exactly when
\* the member holds a booking on the requested date.
C6_OneBookingPerDay ==
    (Validated /\ bookResult.kind # "returned")
    => (ValidatorOutcome = OnePerDayMessage
          <=> \E b \in gatewayBookings : b.day = RequestedDay)

\* C7: a request that passes the one-booking-per-day and advance-window
\* rules is rejected by the block-duration rule exactly when its end is not
\* 90 minutes after its start.
C7_DurationIsExactly90 ==
    ( /\ Validated
      /\ ValidatorOutcome \notin {OnePerDayMessage, AdvanceBoundMessage, OpenTimeMessage} )
    => (ValidatorOutcome = BlockDurationMessage
          <=> NewDate(bookOptions.endTime) - NewDate(bookOptions.startTime) # 90)

\* C7 witness: a request of 180 minutes was rejected for its duration.
C7_Witness ==
    /\ Validated
    /\ ValidatorOutcome = BlockDurationMessage
    /\ NewDate(bookOptions.endTime) - NewDate(bookOptions.startTime) = 180

\* The start times of day the rule enumerates, in minutes: 8:00, 9:30,
\* 11:00, 12:30, 14:00, 15:30, 17:00, 18:30, 20:00.
EnumeratedStartMinutes == {480, 570, 660, 750, 840, 930, 1020, 1110, 1200}

\* C8: a request that passes the earlier rules is accepted exactly when the
\* hour and minute of its start time are one of the enumerated start times.
C8_StartTimeIsEnumerated ==
    ( /\ Validated
      /\ ValidatorOutcome \notin {OnePerDayMessage, AdvanceBoundMessage,
                                  OpenTimeMessage, BlockDurationMessage} )
    => (ValidatorOutcome = "pass"
          <=> LocalMinuteOfDay(NewDate(bookOptions.startTime)) \in EnumeratedStartMinutes)

\* C8 witness: a 90-minute request starting at 8:15 AM was rejected for its
\* start time.
C8_Witness ==
    /\ Validated
    /\ ValidatorOutcome = StartTimeMessage
    /\ LocalMinuteOfDay(NewDate(bookOptions.startTime)) = 8 * 60 + 15

NoRuleViolated == ViolatedRules = {}

Submitted(requests) == \E i \in 1 .. Len(requests) : requests[i].method = "POST"

\* C9: the submission is sent only after the five rules passed; a call that
\* ends with a rule violation has sent none; and the step that validates
\* sends no submission and leaves the gateway's bookings as they are.
C9_SubmitOnlyAfterRulesPass ==
    /\ [](Submitted(bookRequests) => Validated /\ NoRuleViolated)
    /\ [](IsRuleViolation(bookResult) => ~Submitted(bookRequests))
    /\ [][bookPc = "awaitMyBookings"
            => ~Submitted(bookRequests') /\ gatewayBookings' = gatewayBookings]_vars

\* C9 witness: a call has sent its submission.
C9_Witness == bookPc = "awaitPost" /\ Submitted(bookRequests)

\* The rules whose violation is reported with the code and with the message
\* of the current result.
RulesOfCode == {j \in 1 .. Len(RuleOrder) :
                   RuleViolation(RuleOrder[j].message).code = bookResult.code}

RulesOfMessage == {j \in 1 .. Len(RuleOrder) : RuleOrder[j].message = bookResult.message}

\* C11 as stated: the identifier (the code) of a rule violation is that of
\* one rule only.
C11_EachRuleHasItsOwnIdentifier ==
    (Validated /\ IsRuleViolation(bookResult)) => Cardinality(RulesOfCode) = 1

\* C11, amended: every rule violation carries the one code
\* COURTS_BOOKING_RULE_VIOLATION, shared by the five rules, and a message
\* that is not empty and is that of the violated rule and of no other rule.
C11_RuleIsToldByItsMessage ==
    (Validated /\ ViolatedRules # {})
    => /\ bookResult.kind = "thrown"
       /\ bookResult.code = "COURTS_BOOKING_RULE_VIOLATION"
       /\ RulesOfCode = 1 .. Len(RuleOrder)
       /\ bookResult.message # ""
       /\ \E j \in ViolatedRules :
             /\ \A i \in ViolatedRules : j <= i
             /\ RulesOfMessage = {j}

\* C11 witness: a request was rejected for its start time alone.
C11_Witness ==
    /\ Validated
    /\ ViolatedRules = {5}
    /\ IsRuleViolation(bookResult)
    /\ RulesOfMessage = {5}

-----------------------------------------------------------------------------
(* Properties of the result of findAvailableCourts (SpecResolve) *)

\* The last call of findAvailableCourts returned: facOptions are its
\* options, lastGridData the grid it resolved, facFree and facSlots what it
\* computed for each resource of the grid.
Resolved == facPc = "idle" /\ facResult.kind = "returned"

ResultEntries == {facResult.value[n] : n \in 1 .. Len(facResult.value)}

\* C12: every block returned for a call with minDurationMinutes = m lasts
\* at least m minutes (so a court without such a block is absent).
C12_MinDurationIsHonoured ==
    Resolved
    => \A entry \in ResultEntries :
          \A n \in 1 .. Len(entry.availableSlots) :
             entry.availableSlots[n].durationMinutes >= facOptions.minDurationMinutes

\* A resolved block passes the time filters of the call.
PassesTimeFilters(block) ==
    /\ IsMissing(facOptions.startTime) \/ block.startTime >= NewDate(facOptions.startTime)
    /\ IsMissing(facOptions.endTime) \/ block.endTime <= NewDate(facOptions.endTime)

\* The resolved blocks of the k-th resource that pass the time filters.
KeptBlocks(k) == SelectSeq(facSlots[k], PassesTimeFilters)

\* The entries of the result for the k-th resource of the grid.
EntriesOf(k) == {entry \in ResultEntries : entry.court.id = lastGridData.resources[k].id}

NoCourtFilter ==
    facOptions.type = "" /\ facOptions.features = << >> /\ facOptions.location = ""

\* C13: the blocks returned for a court are exactly its resolved blocks
\* that start at or after options.startTime, when given, and end at or
\* before options.endTime, when given, in the resolved order; without a
\* court filter a court that keeps a block is returned.
C13_TimeFiltersAreConjoined ==
    Resolved
    => \A k \in 1 .. Len(facSlots) :
          /\ \A entry \in EntriesOf(k) : entry.availableSlots = KeptBlocks(k)
          /\ (NoCourtFilter /\ KeptBlocks(k) # << >>) => EntriesOf(k) # {}

\* C13 witness: with both filters given, a court was returned without a
\* block the start filter drops and without a block the end filter drops.
C13_Witness ==
    /\ Resolved
    /\ ~IsMissing(facOptions.startTime)
    /\ ~IsMissing(facOptions.endTime)
    /\ \E k \in 1 .. Len(facSlots) :
          /\ EntriesOf(k) # {}
          /\ \E n \in 1 .. Len(facSlots[k]) :
                facSlots[k][n].startTime < NewDate(facOptions.startTime)
          /\ \E n \in 1 .. Len(facSlots[k]) :
                /\ facSlots[k][n].startTime >= NewDate(facOptions.startTime)
                /\ facSlots[k][n].endTime > NewDate(facOptions.endTime)

\* Every open slot of the resource is reserved (and it has an open slot).
FullyReserved(resource) ==
    /\ OpenSlots(resource) # {}
    /\ \A s \in OpenSlots(resource) : Reserved(resource, s)

\* C14: every entry of the result has at least one block; a resource that
\* keeps no block after the time filters has no entry; a resource whose
\* reservations cover its whole open range has no block and no entry; and
\* the call never fails with an availability error.
C14_NoEmptyEntries ==
    /\ Resolved
       => /\ \A entry \in ResultEntries : Len(entry.availableSlots) >= 1
          /\ \A k \in 1 .. Len(facSlots) :
                /\ KeptBlocks(k) = << >> => EntriesOf(k) = {}
                /\ FullyReserved(lastGridData.resources[k])
                   => facSlots[k] = << >> /\ EntriesOf(k) = {}
    /\ facResult.kind = "thrown" => facResult.code # "COURTS_AVAILABILITY_FAILED"

\* C14 witness: a call returned for a grid with a resource whose whole open
\* range is reserved, and with another resource that keeps its blocks.
C14_Witness ==
    /\ Resolved
    /\ \E k \in 1 .. Len(facSlots) :
          FullyReserved(lastGridData.resources[k]) /\ EntriesOf(k) = {}
    /\ \E k \in 1 .. Len(facSlots) : EntriesOf(k) # {}

\* The slots of the reserved ranges of a resource, all together.
ReservedSlots(resource) ==
    UNION { resource.reservations[n].firstTS .. resource.reservations[n].lastTS
            : n \in 1 .. Len(resource.reservations) }

\* C15: the free set of every resource is its open range minus the union
\* of its reserved ranges, whether these are duplicated, overlap or reach
\* outside the open range; subtracting the ranges once more changes
\* nothing; and no call fails with an availability error.
C15_SubtractionIsSetDifference ==
    /\ Resolved
       => \A k \in 1 .. Len(facFree) :
             LET resource == lastGridData.resources[k]
             IN  /\ facFree[k] = OpenSlots(resource) \ ReservedSlots(resource)
                 /\ RemoveReservations(facFree[k], resource.reservations) = facFree[k]
                 /\ allTimeSlots([resource EXCEPT
                                    !.reservations = @ \o resource.reservations])
                       = facFree[k]
    /\ facResult.kind = "thrown" => facResult.code # "COURTS_AVAILABILITY_FAILED"

\* C15 witness: a call resolved a resource with the same range reserved
\* twice, that range lying partly outside the open range.
C15_Witness ==
    /\ Resolved
    /\ \E k \in 1 .. Len(facFree) :
          LET resource == lastGridData.resources[k]
          IN  /\ Len(resource.reservations) = 2
              /\ resource.reservations[1] = resource.reservations[2]
              /\ resource.reservations[1].firstTS < resource.firstAvailableTS
              /\ resource.reservations[1].lastTS >= resource.firstAvailableTS
              /\ facFree[k] # {}
              /\ facFree[k] # OpenSlots(resource)

\* The resources of the resolved grid but the k-th.
ResourcesWithout(k) ==
    SubSeq(lastGridData.resources, 1, k - 1)
    \o SubSeq(lastGridData.resources, k + 1, Len(lastGridData.resources))

\* What the call returns for the resolved grid without its k-th resource.
ResultWithout(k) ==
    LET map == timeSlotMap(lastGridData.firstTS, StartOfDay(NewDate(facOptions.date)))
    IN  Returned(filteredResults(availabilityResults(ResourcesWithout(k), map, facOptions),
                                 facOptions))

\* C16: a call on a grid with a malformed resource reports the failure of
\* that resource (its outcome is not that of the grid without the
\* resource), and returns every other resource with the blocks it has
\* without the malformed resource.
C16_MalformedResourceIsReported ==
    Resolved
    => \A k \in 1 .. Len(lastGridData.resources) :
          Malformed(lastGridData.resources[k])
          => /\ facResult # ResultWithout(k)
             /\ \A entry \in ResultEntries :
                   entry.court.id # lastGridData.resources[k].id
                   => \E n \in 1 .. Len(ResultWithout(k).value) :
                         ResultWithout(k).value[n] = entry

-----------------------------------------------------------------------------
(* Properties of the five methods (SpecCalls) *)

\* A step in which a method is called: the method's variables change while
\* no call of it is under way.
FacCalled == facPc = "idle" /\ facVars' # facVars

BookCalled == bookPc = "idle" /\ bookVars' # bookVars

OtherCalled == callPc = "idle" /\ callVars' # callVars

\* What each method says when the user is not authenticated.
MustBeAuthenticated ==
    [findAllCourts |-> "User must be authenticated to find courts",
     findAvailableCourts |-> "User must be authenticated to find available courts",
     bookCourt |-> "User must be authenticated to book a court",
     cancelBooking |-> "User must be authenticated to cancel a booking",
     getMyBookings |-> "User must be authenticated to get bookings"]

NotAuthenticated(result, method) ==
    /\ result.kind = "thrown"
    /\ result.code = "COURTS_NOT_AUTHENTICATED"
    /\ result.message = MustBeAuthenticated[method]

\* C17: a call of any of the five methods while the auth status is false
\* ends at once with the method's must-be-authenticated error, whatever its
\* options, and has issued no request.
C17_AuthenticationComesFirst ==
    [][ ~authStatus
        => /\ FacCalled => /\ NotAuthenticated(facResult', "findAvailableCourts")
                           /\ facPc' = "idle"
           /\ BookCalled => /\ NotAuthenticated(bookResult', "bookCourt")
                            /\ bookPc' = "idle"
                            /\ bookRequests' = << >>
           /\ OtherCalled => /\ NotAuthenticated(callResult', callName')
                             /\ callPc' = "idle"
                             /\ callRequests' = << >> ]_vars

\* C17 witness: findAvailableCourts without a date, bookCourt without a
\* required option and cancelBooking without a bookingId were each rejected
\* as not authenticated, with no request issued.
C17_Witness ==
    /\ NotAuthenticated(facResult, "findAvailableCourts")
    /\ IsMissing(facOptions.date)
    /\ NotAuthenticated(bookResult, "bookCourt")
    /\ missingOption(bookOptions) # ""
    /\ bookRequests = << >>
    /\ NotAuthenticated(callResult, "cancelBooking")
    /\ callOptions.bookingId = ""
    /\ callRequests = << >>

\* The required options of bookCourt in the order of the claim, whether
\* each is missing from options, and what is said of it.
RequiredOptions(options) ==
    << [missing |-> options.courtId = "", message |-> "Court ID is required to book a court"],
       [missing |-> IsMissing(options.date), message |-> "Date is required to book a court"],
       [missing |-> IsMissing(options.startTime),
        message |-> "Start time is required to book a court"],
       [missing |-> IsMissing(options.endTime),
        message |-> "End time is required to book a court"] >>

MissingOptions(options) == {i \in 1 .. 4 : RequiredOptions(options)[i].missing}

InvalidOptions(result, message) ==
    /\ result.kind = "thrown"
    /\ result.code = "COURTS_INVALID_OPTIONS"
    /\ result.message = message

\* C18: an authenticated call that lacks a required option ends at once
\* with the invalid-options error, having checked no club rule and issued
\* no request: bookCourt names the first missing of courtId, date,
\* startTime, endTime; cancelBooking a missing bookingId;
\* findAvailableCourts a missing date.
C18_RequiredOptionsComeNext ==
    [][ authStatus
        => /\ (BookCalled /\ MissingOptions(bookOptions') # {})
              => /\ \E i \in MissingOptions(bookOptions') :
                       /\ \A j \in MissingOptions(bookOptions') : i <= j
                       /\ InvalidOptions(bookResult', RequiredOptions(bookOptions')[i].message)
                 /\ bookPc' = "idle"
                 /\ bookRequests' = << >>
                 /\ bookExisting' = {}
           /\ (OtherCalled /\ callName' = "cancelBooking" /\ callOptions'.bookingId = "")
              => /\ InvalidOptions(callResult', "Booking ID is required to cancel a booking")
                 /\ callPc' = "idle"
                 /\ callRequests' = << >>
           /\ (FacCalled /\ IsMissing(facOptions'.date))
              => /\ InvalidOptions(facResult', "Date is required to find available courts")
                 /\ facPc' = "idle" ]_vars

\* C18 witness: bookCourt without date, startTime and endTime was rejected
\* for its date, cancelBooking for its bookingId and findAvailableCourts
\* for its date, none with a request issued.
C18_Witness ==
    /\ MissingOptions(bookOptions) = {2, 3, 4}
    /\ InvalidOptions(bookResult, "Date is required to book a court")
    /\ bookRequests = << >>
    /\ callName = "cancelBooking"
    /\ InvalidOptions(callResult, "Booking ID is required to cancel a booking")
    /\ callRequests = << >>
    /\ InvalidOptions(facResult, "Date is required to find available courts")
    /\ facPc = "idle"

\* bookCourt has returned a booking.
BookingReturned == bookPc = "idle" /\ bookResult.kind = "returned"

\* The required fields of the returned booking are those of the request
\* and its status is 'Confirmed'.
ConfirmedAsRequested(booking, options) ==
    /\ booking.status = "Confirmed"
    /\ booking.court.id = options.courtId
    /\ booking.date = options.date
    /\ booking.startTime = options.startTime
    /\ booking.endTime = options.endTime

\* The gateway holds the booking of the submitted form.
TakenByGateway(requests, bookings) ==
    /\ Len(requests) > 0
    /\ LET payload == requests[Len(requests)]
       IN  /\ payload.method = "POST"
           /\ [day |-> payload.date, court |-> payload.court_id,
               start_time |-> payload.start_time] \in bookings

\* C19 as stated: every returned booking is confirmed and its court id,
\* date, startTime, endTime, purpose, category and participants equal
\* those of the request.
C19_ReturnedBookingEqualsRequest ==
    BookingReturned
    => /\ ConfirmedAsRequested(bookResult.value, bookOptions)
       /\ bookResult.value.purpose = bookOptions.purpose
       /\ bookResult.value.category = bookOptions.category
       /\ bookResult.value.participants = bookOptions.participants

\* C19 amended: a booking is returned only in answer to a submission the
\* gateway took without an error message; it is confirmed, its court id,
\* date, startTime, endTime and participants equal those of the request,
\* and its purpose and category equal those of the request when these are
\* non-empty and are absent otherwise.
C19_ReturnedBookingIsTheRequestMade ==
    [][ (bookResult.kind # "returned" /\ bookResult'.kind = "returned")
        => /\ bookPc = "awaitPost"
           /\ bookPc' = "idle"
           /\ TakenByGateway(bookRequests', gatewayBookings')
           /\ ConfirmedAsRequested(bookResult'.value, bookOptions')
           /\ bookResult'.value.participants = bookOptions'.participants
           /\ bookResult'.value.purpose =
                 (IF bookOptions'.purpose.given /\ bookOptions'.purpose.v # ""
                     THEN bookOptions'.purpose ELSE [given |-> FALSE, v |-> ""])
           /\ bookResult'.value.category =
                 (IF bookOptions'.category.given /\ bookOptions'.category.v # ""
                     THEN bookOptions'.category ELSE [given |-> FALSE, v |-> ""]) ]_vars

\* C19 witness: a booking was returned for a request whose purpose and
\* category were given empty and whose participants were an empty list;
\* it has neither purpose nor category.
C19_Witness ==
    /\ BookingReturned
    /\ bookOptions.purpose = [given |-> TRUE, v |-> ""]
    /\ bookOptions.category = [given |-> TRUE, v |-> ""]
    /\ bookOptions.participants = [given |-> TRUE, v |-> << >>]
    /\ ~bookResult.value.purpose.given
    /\ ~bookResult.value.category.given
    /\ TakenByGateway(bookRequests, gatewayBookings)

\* An awaited call ended in this step with an error.
EndsThrown(pc, pcNext, resultNext) ==
    pc # "idle" /\ pcNext = "idle" /\ resultNext.kind = "thrown"

\* The error is one the courts module raises from a page the gateway
\* answered with: a club rule the request breaks, or the error message of
\* the page.
RaisedOnAnswer(result) ==
    \/ IsRuleViolation(result)
    \/ /\ result.kind = "thrown"
       /\ result.code \in {"COURTS_BOOKING_FAILED", "COURTS_CANCELLATION_FAILED"}
       /\ result.message \in {"Booking failed: <error-message>",
                              "Cancellation failed: <error-message>"}

\* The error is one of the client's, with the client's code and message.
RaisedByClient(result) ==
    /\ result.kind = "thrown"
    /\ \/ result.code = "REQUEST_FAILED" /\ result.message = "Request failed with status 500"
       \/ result.code = "NO_RESPONSE" /\ result.message = "No response received from server"
       \/ result.code = "REQUEST_SETUP_ERROR"
          /\ result.message = "Request setup error: <message>"

\* C20: a call of findAvailableCourts, bookCourt, cancelBooking or
\* getMyBookings whose request the client failed ends with the client's
\* error, code and message unchanged, and the failing step issues no
\* request: the call is over with the requests it had made.
C20_TransportErrorsPassThrough ==
    [][ /\ (EndsThrown(facPc, facPc', facResult') /\ ~RaisedOnAnswer(facResult'))
           => RaisedByClient(facResult')
        /\ (EndsThrown(bookPc, bookPc', bookResult') /\ ~RaisedOnAnswer(bookResult'))
           => RaisedByClient(bookResult') /\ bookRequests' = bookRequests
        /\ (/\ callName \in {"cancelBooking", "getMyBookings"}
            /\ EndsThrown(callPc, callPc', callResult')
            /\ ~RaisedOnAnswer(callResult'))
           => RaisedByClient(callResult') /\ callRequests' = callRequests ]_vars

\* C20 witness: bookCourt ended with the client's error for its POST,
\* three requests made; cancelBooking with the client's error for a lost
\* response; findAvailableCourts with the client's error too.
C20_Witness ==
    /\ bookPc = "idle"
    /\ RaisedByClient(bookResult)
    /\ Len(bookRequests) = 3
    /\ callPc = "idle"
    /\ callName = "cancelBooking"
    /\ callResult.kind = "thrown"
    /\ callResult.code = "NO_RESPONSE"
    /\ Len(callRequests) > 0
    /\ facPc = "idle"
    /\ RaisedByClient(facResult)

-----------------------------------------------------------------------------
(* Properties of the module's state (SpecResolve) *)

\* getLastGridData(): return this.lastGridData
getLastGridData == lastGridData

\* A step of a findAvailableCourts call: its start, its resolution or its
\* failure.
FacStep == facPc' # facPc \/ facResult' # facResult \/ facOptions' # facOptions

\* C21: no step of a findAvailableCourts call writes state of the module
\* that a later call or an accessor can observe: what getLastGridData
\* returns after the step is what it returned before.
C21_CallsLeaveModuleStateAlone ==
    [][ FacStep => getLastGridData' = getLastGridData ]_vars

\* The open slots of a resource that at least one reservation covers.
ReservedOpenSlots(resource) == {s \in OpenSlots(resource) : Reserved(resource, s)}

\* C22: for every resource, 6 times the number of blocks emitted is at most
\* the number of its open slots minus the number of its open slots that a
\* reservation covers.
C22_BlocksNeverExceedWhatIsFree ==
    \A k \in 1 .. Len(facSlots) :
        6 * Len(facSlots[k])
           <= Cardinality(OpenSlots(lastGridData.resources[k]))
              - Cardinality(ReservedOpenSlots(lastGridData.resources[k]))

\* C22 witness: a resource with reserved open slots was resolved to blocks
\* that take up every slot left free.
C22_Witness ==
    \E k \in 1 .. Len(facSlots) :
        /\ ReservedOpenSlots(lastGridData.resources[k]) # {}
        /\ Len(facSlots[k]) > 0
        /\ 6 * Len(facSlots[k])
              = Cardinality(OpenSlots(lastGridData.resources[k]))
                - Cardinality(ReservedOpenSlots(lastGridData.resources[k]))

-----------------------------------------------------------------------------
(* Properties of the slot-to-time mapping (SpecResolve) *)

\* Amounts by which the vendor may shift the slot indices of a day.
SlotShifts == {0 - 94, 7, 1000}

ShiftedIndex(ts, shift) == IF ts = Undefined THEN Undefined ELSE ts + shift

\* The resource with every slot index shifted.
ShiftedResource(resource, shift) ==
    [resource EXCEPT
        !.firstAvailableTS = ShiftedIndex(@, shift),
        !.lastAvailableTS = ShiftedIndex(@, shift),
        !.reservations =
            [n \in 1 .. Len(resource.reservations) |->
                [firstTS |-> resource.reservations[n].firstTS + shift,
                 lastTS |-> resource.reservations[n].lastTS + shift]]]

\* C24: the time of every mapped slot s of the fetched grid is the time of
\* firstTS plus (s - firstTS) * 15 minutes, and the blocks of every resource
\* are those of the grid with firstTS and every slot index shifted by the
\* same amount.
C24_SlotTimesAreLinearFromFirstTS ==
    Len(facSlots) > 0
    => LET firstTS == lastGridData.firstTS
           target  == StartOfDay(NewDate(facOptions.date))
           map     == timeSlotMap(firstTS, target)
       IN  /\ \A slot \in DOMAIN map :
                 map[slot] = map[firstTS] + (slot - firstTS) * 15
           /\ \A k \in 1 .. Len(facSlots) :
                 \A shift \in SlotShifts :
                    availableSlots(ShiftedResource(lastGridData.resources[k], shift),
                                   timeSlotMap(firstTS + shift, target))
                       = facSlots[k]

\* C24 witness: a resource open from the second slot of the window was
\* resolved; one of its blocks starts at 2:15 PM, across the boundary of
\* two entries of the template, and ends 90 minutes later.
C24_Witness ==
    \E k \in 1 .. Len(facSlots) :
        /\ lastGridData.resources[k].firstAvailableTS = lastGridData.firstTS + 1
        /\ \E n \in 1 .. Len(facSlots[k]) :
              /\ LocalMinuteOfDay(facSlots[k][n].startTime) = 855
              /\ facSlots[k][n].endTime = facSlots[k][n].startTime + 90

-----------------------------------------------------------------------------
(* Properties of the grid request (SpecResolve) *)

\* The local calendar day a requested date names: the day a date-only
\* string spells, the local day of the instant of a full ISO string.
RequestedLocalDay(date) == IF date.form = "dateOnly" THEN date.v ELSE LocalDay(date.v)

\* C25: the day offset of the grid request is the number of calendar days
\* from today's local date to the requested local date.
C25_DayOffsetCountsCalendarDays ==
    facPc = "awaitGrid"
    => facDayOffset = RequestedLocalDay(facOptions.date) - LocalDay(now)

-----------------------------------------------------------------------------
(* Properties of the template window (SpecResolve) *)

\* The 42 slots of the daily template: firstTS .. firstTS + 41.
TemplateWindow == ResolvedFirstTS .. ResolvedFirstTS + 41

\* The k-th resource was given a block that starts on one of the slots.
BlockStartsAmong(k, slots) == BlockStartSlots(k) \cap slots # {}

\* C30: every emitted block lies inside the window of the 42 slots from
\* firstTS, 8:00 AM to 6:30 PM of the resolved day; a group of 6 contiguous
\* free slots that the scan reaches and whose first or last slot is outside
\* the window gives no block, and no block starts on any of its slots: the
\* scan goes on behind it.
C30_BlocksStayInsideTheTemplateWindow ==
    \A k \in 1 .. Len(facSlots) :
        /\ \A n \in 1 .. Len(facSlots[k]) :
              /\ BlockSlots(facSlots[k][n]) \subseteq TemplateWindow
              /\ facSlots[k][n].startTime >= ResolvedDay + 8 * 60
              /\ facSlots[k][n].endTime <= ResolvedDay + 18 * 60 + 30
        /\ \A run \in Runs(FreeSlots(lastGridData.resources[k])) :
              \A group \in RunBlockStarts(run) :
                 IF group \in TemplateWindow /\ group + 5 \in TemplateWindow
                    THEN group \in BlockStartSlots(k)
                    ELSE ~BlockStartsAmong(k, group .. group + 5)

\* C30 witness: a resource open from three slots before the window was
\* resolved: its first block starts on the slot firstTS + 3, none on
\* firstTS.
C30_Witness ==
    \E k \in 1 .. Len(facSlots) :
        /\ lastGridData.resources[k].firstAvailableTS = ResolvedFirstTS - 3
        /\ lastGridData.resources[k].reservations = << >>
        /\ Len(facSlots[k]) = 6
        /\ facSlots[k][1].startTime = SlotStart(ResolvedFirstTS + 3)

-----------------------------------------------------------------------------
(* Properties of calls in flight together (SpecOverlap) *)

\* Call c has returned.
FacReturned(c) == facCalls[c].pc = "idle" /\ facCalls[c].result.kind = "returned"

C27_LastGridIsOfTheCallInvokedLast ==
    /\ facLastInvoked = 0 => getLastGridData = NoGrid
    /\ (/\ facLastInvoked # 0
        /\ \A c \in CallIds : facCalls[c].pc = "idle"
        /\ FacReturned(facLastInvoked))
       => getLastGridData = facCalls[facLastInvoked].gridData

-----------------------------------------------------------------------------
(* Properties of bookCourt calls in flight together (SpecRace) *)

\* Call c has sent its booking submission and the submission was neither
\* refused nor lost: it is awaited or has returned a booking.
SubmissionStands(c) ==
    /\ Submitted(bookCalls[c].requests)
    /\ bookCalls[c].result.kind # "thrown"

\* The date of the booking submission of call c.
SubmittedDate(c) == bookCalls[c].requests[Len(bookCalls[c].requests)].date

\* C26: no two calls have a standing booking submission for the same date:
\* the member never has two submissions for one date.
C26_OneSubmissionPerDate ==
    \A c1, c2 \in CallIds :
        (c1 # c2 /\ SubmissionStands(c1) /\ SubmissionStands(c2))
        => SubmittedDate(c1) # SubmittedDate(c2)

-----------------------------------------------------------------------------
(* Properties of the requests of the config-object client (SpecRetry) *)

\* C28: a request is sent at most 1 + maxRetries times; its retry counter
\* is the number of times it was sent again, so it grows by one with every
\* re-send; a request rejects only after 1 + maxRetries failed attempts, and
\* then with the code REQUEST_FAILED; a request that has resolved with a
\* response is over and is not sent again.
C28_RetriesAreBoundedByMaxRetries ==
    /\ reqAttempts <= 1 + clientConfig.maxRetries
    /\ reqPc = "sent"
       => \/ reqConfig.retry = reqAttempts - 1
          \/ reqAttempts = 1 /\ reqConfig.retry = Undefined
    /\ reqPc = "backoff" => reqConfig.retry = reqAttempts
    /\ reqOutcome.kind = "thrown"
       => /\ reqPc = "idle"
          /\ reqOutcome.code = "REQUEST_FAILED"
          /\ reqAttempts = 1 + clientConfig.maxRetries
          /\ reqConfig.retry = clientConfig.maxRetries
    /\ reqOutcome.kind = "returned" => reqPc = "idle"

\* C28 witness: with the default of 3 retries, a request was sent 4 times
\* and rejected with REQUEST_FAILED.
C28_Witness ==
    /\ clientConfig.maxRetries = 3
    /\ reqPc = "idle"
    /\ reqOutcome.kind = "thrown"
    /\ reqOutcome.code = "REQUEST_FAILED"
    /\ reqAttempts = 4

-----------------------------------------------------------------------------
(* Properties of the calls of AuthModule (SpecAuth) *)

\* An AuthModule call has ended.
AuthEnded == authPc = "idle" /\ authResult.kind # "none"

=============================================================================
